---------------------------- MODULE Spec2Model ----------------------------
(***************************************************************************)
(* A model of the memory engine of trapias/memoria:                        *)
(*   - the text chunker            (embeddings/chunking.py)                *)
(*   - the memory lifecycle manager (core/memory_manager.py)               *)
(*   - the consolidation engine    (core/consolidation.py)                 *)
(*   - the rate limiter and the circuit breaker (core/rate_limiter.py)     *)
(*                                                                         *)
(* Text is a sequence of one-character strings.  Time is an integer clock. *)
(* Importance is an integer number of hundredths (0.5 is 50).              *)
(*                                                                         *)
(* Scale.  The sizes the code takes from its configuration or writes as    *)
(* literals are scaled down so that the cases they decide occur on texts   *)
(* of a few characters and on memories of a few points:                    *)
(*   ChunkSize     settings.chunk_size, default 500                        *)
(*   ChunkOverlap  settings.chunk_overlap, default 50                      *)
(*   MinChunkSize  ChunkingConfig.min_chunk_size, default 50               *)
(*   ScrollLimit   the literal limit=1000 of every parent_id scroll        *)
(***************************************************************************)
EXTENDS Integers, Sequences, FiniteSets, Bags, TLC

(***************************************************************************)
(* Bounds and scaled configuration                                         *)
(***************************************************************************)
ChunkSize == 4
ChunkOverlap == 1
MinChunkSize == 2
ScrollLimit == 2

Min2(a, b) == IF a <= b THEN a ELSE b
Max2(a, b) == IF a >= b THEN a ELSE b
SetMin(S) == CHOOSE x \in S : \A y \in S : x <= y
SetMax(S) == CHOOSE x \in S : \A y \in S : x >= y

(***************************************************************************)
(* Text helpers: Python's str operations on sequences of characters        *)
(***************************************************************************)
NL == "\n"
IsSpace(c) == c \in {" ", NL, "\t"}

\* str.strip()
Strip(s) ==
    LET keep == {i \in 1..Len(s) : ~IsSpace(s[i])}
    IN  IF keep = {} THEN <<>> ELSE SubSeq(s, SetMin(keep), SetMax(keep))

\* The characters of s at the positions in keep, in order.
KeepPositions(s, keep) ==
    LET idx == SelectSeq([i \in 1..Len(s) |-> i], LAMBDA i : i \in keep)
    IN  [k \in 1..Len(idx) |-> s[idx[k]]]

\* str.find(sep, from): the least position >= from where sep occurs, 0 if none.
Find(text, sep, from) ==
    LET hits == {i \in from..(Len(text) - Len(sep) + 1) :
                    SubSeq(text, i, i + Len(sep) - 1) = sep}
    IN  IF hits = {} THEN 0 ELSE SetMin(hits)

\* sep in text
Contains(text, sep) == Find(text, sep, 1) # 0

\* str.split(sep) for a non-empty sep
RECURSIVE Split(_, _)
Split(text, sep) ==
    LET i == Find(text, sep, 1)
    IN  IF i = 0 THEN <<text>>
        ELSE <<SubSeq(text, 1, i - 1)>>
                 \o Split(SubSeq(text, i + Len(sep), Len(text)), sep)

(***************************************************************************)
(* TextChunker                                                             *)
(***************************************************************************)
Separators ==
    << <<NL, NL>>, <<NL>>, <<".", " ">>, <<"!", " ">>, <<"?", " ">>,
       <<";", " ">>, <<",", " ">>, <<" ">> >>
PreserveSentences == TRUE

TextChunk(text, start_idx, end_idx) ==
    [text |-> text, start_idx |-> start_idx, end_idx |-> end_idx, chunk_index |-> 0]

\* re.sub(r" +", " ", text), re.sub(r"\n{3,}", "\n\n", text), strip()
NormalizeWhitespace(text) ==
    LET t1 == KeepPositions(text,
                  {i \in 1..Len(text) : ~(text[i] = " " /\ i > 1 /\ text[i - 1] = " ")})
        t2 == KeepPositions(t1,
                  {i \in 1..Len(t1) :
                      ~(t1[i] = NL /\ i > 2 /\ t1[i - 1] = NL /\ t1[i - 2] = NL)})
    IN  Strip(t2)

\* _get_overlap: text[-chunk_overlap:] is the whole text when chunk_overlap = 0.
GetOverlap(text) ==
    IF Len(text) <= ChunkOverlap THEN <<>>
    ELSE LET overlap == IF ChunkOverlap = 0 THEN text
                        ELSE SubSeq(text, Len(text) - ChunkOverlap + 1, Len(text))
             p == Find(overlap, <<" ">>, 1)
         IN  IF PreserveSentences /\ p > 1
             THEN SubSeq(overlap, p + 1, Len(overlap))
             ELSE overlap

\* The loop of _split_by_separator over parts[i..], with its three locals.
RECURSIVE SplitLoop(_, _, _, _, _, _)
SplitLoop(parts, sep, i, chunks, current_chunk, current_start) ==
    IF i > Len(parts)
    THEN IF Len(Strip(current_chunk)) > 0 /\ Len(Strip(current_chunk)) >= MinChunkSize
         THEN Append(chunks, TextChunk(Strip(current_chunk), current_start,
                                       current_start + Len(current_chunk)))
         ELSE chunks
    ELSE LET part_with_sep == IF i < Len(parts) THEN parts[i] \o sep ELSE parts[i]
         IN  IF current_chunk = <<>>
             THEN SplitLoop(parts, sep, i + 1, chunks, part_with_sep, current_start)
             ELSE IF Len(current_chunk) + Len(part_with_sep) <= ChunkSize
             THEN SplitLoop(parts, sep, i + 1, chunks,
                            current_chunk \o part_with_sep, current_start)
             ELSE LET saved == IF Len(Strip(current_chunk)) >= MinChunkSize
                               THEN Append(chunks,
                                        TextChunk(Strip(current_chunk), current_start,
                                                  current_start + Len(current_chunk)))
                               ELSE chunks
                      overlap_text == GetOverlap(current_chunk)
                  IN  SplitLoop(parts, sep, i + 1, saved,
                                overlap_text \o part_with_sep,
                                current_start + Len(current_chunk) - Len(overlap_text))

\* _split_by_separator; None is the empty sequence (both are falsy to the caller).
SplitBySeparator(text, sep, start_offset) ==
    LET parts == Split(text, sep)
    IN  IF Len(parts) <= 1 THEN <<>>
        ELSE SplitLoop(parts, sep, 1, <<>>, <<>>, start_offset)

\* The while loop of _hard_split from position start (0-based).  The loop's only
\* variable is start: when an iteration does not advance it, the loop repeats
\* that iteration forever.
RECURSIVE HardSplitLoop(_, _, _, _)
HardSplitLoop(text, start, start_offset, chunks) ==
    IF ~(start < Len(text)) THEN [diverges |-> FALSE, chunks |-> chunks]
    ELSE LET end == Min2(start + ChunkSize, Len(text))
             chunk_text == SubSeq(text, start + 1, end)
             out == IF Len(Strip(chunk_text)) >= MinChunkSize
                    THEN Append(chunks, TextChunk(Strip(chunk_text),
                                                  start_offset + start, start_offset + end))
                    ELSE chunks
             next == end - ChunkOverlap
         IN  IF next <= start THEN [diverges |-> TRUE, chunks |-> out]
             ELSE HardSplitLoop(text, next, start_offset, out)

HardSplit(text, start_offset) == HardSplitLoop(text, 0, start_offset, <<>>)

\* The first separator, in order from k, that occurs in text and splits it into
\* at least one chunk; <<>> if there is none.
RECURSIVE FirstSeparatorChunks(_, _, _)
FirstSeparatorChunks(text, start_offset, k) ==
    IF k > Len(Separators) THEN <<>>
    ELSE LET chunks == IF Contains(text, Separators[k])
                       THEN SplitBySeparator(text, Separators[k], start_offset)
                       ELSE <<>>
         IN  IF chunks # <<>> THEN chunks
             ELSE FirstSeparatorChunks(text, start_offset, k + 1)

RecursiveChunk(text, start_offset) ==
    IF Len(text) <= ChunkSize
    THEN [diverges |-> FALSE,
          chunks |-> IF Len(text) >= MinChunkSize
                     THEN <<TextChunk(Strip(text), start_offset, start_offset + Len(text))>>
                     ELSE <<>>]
    ELSE LET chunks == FirstSeparatorChunks(text, start_offset, 1)
         IN  IF chunks # <<>> THEN [diverges |-> FALSE, chunks |-> chunks]
             ELSE HardSplit(text, start_offset)

\* TextChunker.chunk: [diverges, chunks]; diverges says the call never returns.
Chunk(text) ==
    IF text = <<>> \/ Strip(text) = <<>> THEN [diverges |-> FALSE, chunks |-> <<>>]
    ELSE LET r == RecursiveChunk(NormalizeWhitespace(text), 0)
         IN  [diverges |-> r.diverges,
              chunks |-> [i \in 1..Len(r.chunks) |->
                             [r.chunks[i] EXCEPT !.chunk_index = i - 1]]]

(***************************************************************************)
(* State                                                                   *)
(***************************************************************************)
VARIABLES
    points,     \* the vector store's collection: point id -> payload
    cache,      \* WorkingMemory._cache: memory id -> the MemoryItem store() cached
    nextId,     \* the next uuid4 that create_memory draws
    clock,      \* datetime.now() / time.monotonic()
    lastOp,     \* the operation that completed last, with what it returned
    returned,   \* ids of the memories a store or update has returned so far
    chunker,    \* MemoryManager.chunker, as the table content -> chunker.chunk(content)
    dryDone,    \* the maintenance operations that found work to do in a dry run
    timestamps, \* RateLimiter._timestamps
    granted,    \* the time of every acquire() that succeeded so far
    breaker,    \* CircuitBreaker: _state, _failure_count, _success_count, _last_failure_time
    calls,      \* caller -> where its CircuitBreaker.call stands
    consecutive, \* failures since the last success, reset or closing of the circuit
    history,    \* of the circuit: when and from where it opened last, and the
                \* successes since it became half-open
    relations,  \* the rows of table memory_relations, as a bag
    rejected,   \* the rows of table rejected_suggestions
    backup,     \* the file the last export wrote
    lru,        \* WorkingMemory._cache as the OrderedDict it is, oldest first,
                \* where its max_size is in reach (cache holds what the
                \* manager's operations cached, which stay far below max_size)
    writers,    \* task -> where its update(memory_id, content=...) stands
    sync,       \* sync_qdrant.py: the two Qdrant nodes and the saved sync state
    work        \* table work_sessions, in the order of insertion

memVars == <<points, cache, nextId, lastOp, returned>>
\* The rate limiter and the circuit breaker.
limiterVars == <<timestamps, granted>>
breakerVars == <<breaker, calls, consecutive, history>>
guardVars == <<limiterVars, breakerVars>>
\* The relational store of the graph manager.
graphVars == <<relations, rejected>>
\* What the operations of the memory manager never assign.
\* The export file and the bounded cache.
sessionVars == <<backup, lru>>
\* The calls that are under way, step by step.
taskVars == <<writers, sync, work>>
otherVars == <<chunker, dryDone, guardVars, graphVars, sessionVars, taskVars>>
\* What the rate limiter and the circuit breaker never assign.
managerVars ==
    <<points, cache, nextId, returned, chunker, dryDone, graphVars, sessionVars, taskVars>>
\* What the graph manager never assigns.
nonGraphVars ==
    <<points, cache, nextId, returned, chunker, dryDone, clock, guardVars, sessionVars, taskVars>>
vars == <<points, cache, nextId, clock, lastOp, returned, chunker, dryDone,
          timestamps, granted, breaker, calls, consecutive, history,
          relations, rejected, backup, lru, writers, sync, work>>

(***************************************************************************)
(* Bounds of the memory model                                              *)
(***************************************************************************)
MaxIds == 2      \* uuid4 values drawn in one behaviour
MaxClock == 1    \* the clock stops advancing here

\* The texts callers submit.
ShortText == <<"a", "b">>
TwoChunkText == <<"a", "a", " ", "b", "b">>
ThreeChunkText == <<"a", "a", " ", "b", "b", " ", "c", "c">>
PaddedText == <<"a", " ", " ", " ", "b">>
BlankTailText == <<"a", " ", " ", " ", " ">>
SolidText == <<"a", "a", "a", "a", "a">>
Contents ==
    {ShortText, TwoChunkText, ThreeChunkText, PaddedText, BlankTailText, SolidText}

\* (tags, importance) a caller passes to store: the defaults, and a memory of
\* low importance.
DefaultProfile == [tags |-> {}, importance |-> 50]
LowProfile == [tags |-> {"t"}, importance |-> 20]
HighProfile == [tags |-> {}, importance |-> 95]
OutOfRangeProfile == [tags |-> {}, importance |-> 150]

\* What a caller passes to update besides the content: nothing (tags=None,
\* importance=None), or new tags and a new importance.
NoChanges == [has_tags |-> FALSE, tags |-> {}, has_importance |-> FALSE, importance |-> 0]
Retag == [has_tags |-> TRUE, tags |-> {"u"}, has_importance |-> TRUE, importance |-> 80]
Overweight == [has_tags |-> FALSE, tags |-> {}, has_importance |-> TRUE, importance |-> 150]

(***************************************************************************)
(* Points                                                                  *)
(***************************************************************************)
NoText == <<"<absent>">>   \* a payload without the key full_content
NoIndex == -1              \* a payload without chunk_index / chunk_count
NoMemory == [id |-> 0]     \* Python's None where a MemoryItem is expected

\* The point of a non-chunked memory has the memory's id; _chunk_id derives a
\* chunk's id from (parent id, index) by uuid5, taken to be collision-free.
DirectId(memory_id) == <<memory_id, -1>>
ChunkId(parent_id, chunk_index) == <<parent_id, chunk_index>>

\* MemoryItem.to_payload (isoformat and fromisoformat are exact inverses on the
\* naive datetimes the code uses, so a timestamp is stored as it is).
ToPayload(memory) ==
    [content |-> memory.content, full_content |-> NoText,
     is_chunk |-> FALSE, parent_id |-> memory.id,
     chunk_index |-> NoIndex, chunk_count |-> NoIndex,
     created_at |-> memory.created_at, updated_at |-> memory.updated_at,
     accessed_at |-> memory.accessed_at, access_count |-> memory.access_count,
     importance |-> memory.importance, tags |-> memory.tags]

\* MemoryItem.from_payload
FromPayload(id, payload) ==
    [id |-> id,
     content |-> IF payload.full_content # NoText THEN payload.full_content
                 ELSE payload.content,
     created_at |-> payload.created_at, updated_at |-> payload.updated_at,
     accessed_at |-> payload.accessed_at, access_count |-> payload.access_count,
     importance |-> payload.importance, tags |-> payload.tags]

\* create_memory at time now
CreateMemory(id, content, tags, importance, now) ==
    [id |-> id, content |-> content,
     created_at |-> now, updated_at |-> now, accessed_at |-> now,
     access_count |-> 0, importance |-> importance, tags |-> tags]

\* The points store() and update() build for memory: one point per chunk when
\* len(content) > chunk_size, else the single point at the memory's id.
BuildPoints(memory, updated_at) ==
    LET base == [ToPayload(memory) EXCEPT !.updated_at = updated_at]
    IN  IF Len(memory.content) > ChunkSize
        THEN LET chunks == chunker[memory.content].chunks
             IN  [pid \in {ChunkId(memory.id, chunks[i].chunk_index) : i \in 1..Len(chunks)} |->
                     LET c == chunks[pid[2] + 1]
                     IN  [base EXCEPT !.content = c.text,
                                      !.full_content = memory.content,
                                      !.is_chunk = TRUE,
                                      !.parent_id = memory.id,
                                      !.chunk_index = c.chunk_index,
                                      !.chunk_count = Len(chunks)]]
        ELSE [pid \in {DirectId(memory.id)} |-> base]

\* upsert / upsert_batch: a point with a stored id replaces it.
Upsert(pts, new) ==
    [pid \in DOMAIN pts \cup DOMAIN new |-> IF pid \in DOMAIN new THEN new[pid] ELSE pts[pid]]

\* delete(ids=...)
DeleteIds(pts, ids) == [pid \in DOMAIN pts \ ids |-> pts[pid]]

\* set_payload: the keys of patch replace those of the stored payload.
MergePayload(payload, patch) ==
    [k \in DOMAIN payload \cup DOMAIN patch |->
        IF k \in DOMAIN patch THEN patch[k] ELSE payload[k]]

\* A patch with the key only when the caller gave a value.
NoPatch == [k \in {} |-> 0]
OptionalPatch(given, patch) == IF given THEN patch ELSE NoPatch

\* update_payload(ids=ids, payload=patch); a point that is not stored is left alone.
SetPayload(pts, ids, patch) ==
    [pid \in DOMAIN pts |-> IF pid \in ids THEN MergePayload(pts[pid], patch) ELSE pts[pid]]

\* The points a filter {"parent_id": memory_id} matches.
WithParent(pts, memory_id) == {pid \in DOMAIN pts : pts[pid].parent_id = memory_id}

\* scroll(limit=...) returns one page and the code reads no second page: the
\* pages a scroll over matching may return.
ScrollPages(matching, limit) ==
    {page \in SUBSET matching : Cardinality(page) = Min2(limit, Cardinality(matching))}

\* A point set that holds both the non-chunk point at the memory's id and chunk
\* points of that memory.
MixedPointSet(pts, memory_id) ==
    /\ DirectId(memory_id) \in DOMAIN pts
    /\ ~pts[DirectId(memory_id)].is_chunk
    /\ \E pid \in DOMAIN pts : pts[pid].is_chunk /\ pts[pid].parent_id = memory_id

\* _get_memory_point_ids, given the page its parent_id scroll returned
GetMemoryPointIds(pts, memory_id, page) ==
    ({DirectId(memory_id)} \cap DOMAIN pts) \cup page

\* _delete_memory_points
DeleteMemoryPoints(pts, memory_id, page) ==
    DeleteIds(pts, GetMemoryPointIds(pts, memory_id, page))

\* MemoryManager.get: the cache first, then the point at the id, then chunk 0.
Get(pts, wm, memory_id) ==
    IF memory_id \in DOMAIN wm THEN wm[memory_id]
    ELSE IF DirectId(memory_id) \in DOMAIN pts
         THEN FromPayload(pts[DirectId(memory_id)].parent_id, pts[DirectId(memory_id)])
    ELSE IF ChunkId(memory_id, 0) \in DOMAIN pts
         THEN FromPayload(pts[ChunkId(memory_id, 0)].parent_id, pts[ChunkId(memory_id, 0)])
    ELSE NoMemory

\* invalidate_cache
Invalidate(wm, memory_id) == [m \in DOMAIN wm \ {memory_id} |-> wm[m]]

\* cache_memory
CacheMemory(wm, memory) ==
    [m \in DOMAIN wm \cup {memory.id} |-> IF m = memory.id THEN memory ELSE wm[m]]

Running == lastOp.status # "hang"

\* MemoryItem's importance field: Field(ge=0.0, le=1.0)
ValidImportance(importance) == 0 <= importance /\ importance <= 100

\* The chunker's loop never ends on this content: the call, which runs on the
\* event loop, never returns and nothing else runs.
StoreHangs(content) == Len(content) > ChunkSize /\ chunker[content].diverges

(***************************************************************************)
(* MemoryManager.store                                                      *)
(***************************************************************************)
StoreOf(contents, profiles) ==
    /\ Running
    /\ nextId <= MaxIds
    /\ \E content \in contents, profile \in profiles :
          LET memory == CreateMemory(nextId, content, profile.tags,
                                     profile.importance, clock)
          IN  IF ~ValidImportance(profile.importance)
              THEN /\ lastOp' = [op |-> "store", status |-> "error", id |-> 0]
                   /\ UNCHANGED <<points, cache, nextId, returned>>
              ELSE IF StoreHangs(content)
              THEN /\ lastOp' = [op |-> "store", status |-> "hang", id |-> nextId]
                   /\ nextId' = nextId + 1
                   /\ UNCHANGED <<points, cache, returned>>
              ELSE /\ points' = Upsert(points, BuildPoints(memory, clock))
                   /\ cache' = CacheMemory(cache, memory)
                   /\ nextId' = nextId + 1
                   /\ returned' = returned \cup {nextId}
                   /\ lastOp' = [op |-> "store", status |-> "ok", id |-> nextId,
                                 content |-> content]
    /\ UNCHANGED <<clock, otherVars>>

(***************************************************************************)
(* MemoryManager.update                                                     *)
(***************************************************************************)
\* update(memory_id, content=content, tags=..., importance=...): the branch
\* taken when the content is given and differs from the existing one.
UpdateContent(memory_id, content, args) ==
    LET existing == Get(points, cache, memory_id)
        tags == IF args.has_tags THEN args.tags ELSE existing.tags
        importance == IF args.has_importance THEN args.importance ELSE existing.importance
    IN  /\ existing # NoMemory
        /\ content # <<>> /\ content # existing.content
        /\ nextId <= MaxIds
        /\ \E page1 \in ScrollPages(WithParent(points, memory_id), ScrollLimit) :
              LET pts1 == DeleteMemoryPoints(points, memory_id, page1)
                  \* store() under a new id
                  temp == CreateMemory(nextId, content, tags, importance, clock)
                  pts2 == Upsert(pts1, BuildPoints(temp, clock))
                  cache1 == CacheMemory(cache, temp)
              IN  IF ~ValidImportance(importance)
                  THEN /\ points' = pts1
                       /\ lastOp' = [op |-> "update", status |-> "error", id |-> memory_id,
                                     mixed |-> MixedPointSet(points, memory_id)]
                       /\ UNCHANGED <<cache, nextId, returned>>
                  ELSE IF StoreHangs(content)
                  THEN /\ points' = pts1
                       /\ nextId' = nextId + 1
                       /\ lastOp' = [op |-> "update", status |-> "hang", id |-> memory_id,
                                     mixed |-> MixedPointSet(points, memory_id)]
                       /\ UNCHANGED <<cache, returned>>
                  ELSE \E page2 \in ScrollPages(WithParent(pts2, nextId), ScrollLimit) :
                       LET pts3 == DeleteMemoryPoints(pts2, nextId, page2)
                           updated_memory ==
                               [CreateMemory(memory_id, content, tags, importance, clock)
                                   EXCEPT !.created_at = existing.created_at]
                           pts4 == Upsert(pts3, BuildPoints(updated_memory, clock))
                           cache2 == Invalidate(cache1, memory_id)
                           result == Get(pts4, cache2, memory_id)
                       IN  /\ points' = pts4
                           /\ cache' = cache2
                           /\ nextId' = nextId + 1
                           /\ returned' = IF result = NoMemory THEN returned
                                          ELSE returned \cup {result.id}
                           /\ lastOp' = [op |-> "update", status |-> "ok",
                                         id |-> memory_id, kind |-> "content",
                                         content |-> content,
                                         created_before |-> existing.created_at,
                                         result |-> result,
                                         mixed |-> MixedPointSet(points, memory_id)]
        /\ UNCHANGED <<clock, otherVars>>

\* The metadata-only branch: no content, or the content the memory already has.
UpdateMetadata(memory_id, content, args) ==
    LET existing == Get(points, cache, memory_id)
        payload_updates ==
            [updated_at |-> clock]
                @@ OptionalPatch(args.has_tags, [tags |-> args.tags])
                @@ OptionalPatch(args.has_importance, [importance |-> args.importance])
    IN  /\ existing # NoMemory
        /\ content = <<>> \/ content = existing.content
        /\ \E page \in ScrollPages(WithParent(points, memory_id), ScrollLimit) :
              LET point_ids == GetMemoryPointIds(points, memory_id, page)
                  pts1 == SetPayload(points, point_ids, payload_updates)
                  cache1 == Invalidate(cache, memory_id)
                  result == Get(pts1, cache1, memory_id)
                  \* get() builds a MemoryItem, whose importance field is validated
                  raised == result # NoMemory /\ ~ValidImportance(result.importance)
              IN  /\ points' = pts1
                  /\ cache' = cache1
                  /\ returned' = IF result = NoMemory \/ raised THEN returned
                                 ELSE returned \cup {result.id}
                  /\ lastOp' = [op |-> "update",
                                status |-> IF raised THEN "error" ELSE "ok",
                                id |-> memory_id, kind |-> "metadata",
                                content |-> content,
                                created_before |-> existing.created_at,
                                result |-> IF raised THEN NoMemory ELSE result,
                                mixed |-> MixedPointSet(points, memory_id)]
        /\ UNCHANGED <<nextId, clock, otherVars>>

\* update of an id get() does not find returns None.
UpdateMissing(memory_id) ==
    /\ Get(points, cache, memory_id) = NoMemory
    /\ lastOp' = [op |-> "update", status |-> "ok", id |-> memory_id,
                  kind |-> "missing", content |-> <<>>,
                  created_before |-> 0, result |-> NoMemory,
                  mixed |-> MixedPointSet(points, memory_id)]
    /\ UNCHANGED <<points, cache, nextId, returned, clock, otherVars>>

\* content = <<>> stands for update(..., content=None).
UpdateOf(contents, argsets) ==
    /\ Running
    /\ \E memory_id \in 1..MaxIds :
          \/ UpdateMissing(memory_id)
          \/ \E content \in contents, args \in argsets :
                UpdateContent(memory_id, content, args)
          \/ \E content \in contents \cup {<<>>}, args \in argsets :
                UpdateMetadata(memory_id, content, args)

(***************************************************************************)
(* MemoryManager.delete(memory_ids=[memory_id])                             *)
(***************************************************************************)
Delete ==
    /\ Running
    /\ \E memory_id \in 1..MaxIds :
       \E page \in ScrollPages(WithParent(points, memory_id), ScrollLimit) :
          LET deleted == Cardinality(GetMemoryPointIds(points, memory_id, page))
          IN  /\ points' = DeleteMemoryPoints(points, memory_id, page)
              /\ cache' = Invalidate(cache, memory_id)
              /\ lastOp' = [op |-> "delete", status |-> "ok", id |-> memory_id,
                            total_deleted |-> Max2(deleted, 1),
                            mixed |-> MixedPointSet(points, memory_id)]
    /\ UNCHANGED <<nextId, clock, returned, otherVars>>

TickUpTo(last) ==
    /\ Running
    /\ clock < last
    /\ clock' = clock + 1
    /\ UNCHANGED <<memVars, otherVars>>

Tick == TickUpTo(MaxClock)

\* The tasks that use the circuit breaker, and a breaker as constructed.
EmptyCache == [entries |-> <<>>, tick |-> 0, used |-> <<>>]
NoFile == [written |-> FALSE, include_vectors |-> FALSE, entries |-> <<>>]
Tasks == {"a", "b"}
SyncNodes == {"local", "remote"}
NoSync == 0 - 1    \* state["last_sync"] is None
NewSync == [nodes |-> [n \in SyncNodes |-> <<>>], last_sync |-> NoSync,
            seen |-> [n \in SyncNodes |-> {}], both |-> {}]
IdleWriter == [pc |-> "idle"]
Callers == {"a", "b"}
NewBreaker ==
    [state |-> "closed", failure_count |-> 0, success_count |-> 0,
     last_failure_time |-> 0]
NewHistory == [opened_at |-> 0, opened_from |-> "closed", successes |-> 0,
               admitted_in |-> [c \in Callers |-> "none"]]

Init ==
    /\ points = <<>>
    /\ cache = <<>>
    /\ nextId = 1
    /\ clock = 0
    /\ lastOp = [op |-> "init", status |-> "ok"]
    /\ returned = {}
    /\ chunker = [content \in Contents |-> Chunk(content)]
    /\ dryDone = {}
    /\ timestamps = <<>>
    /\ granted = <<>>
    /\ breaker = NewBreaker
    /\ calls = [c \in Callers |-> "idle"]
    /\ consecutive = 0
    /\ history = NewHistory
    /\ relations = EmptyBag
    /\ rejected = {}
    /\ backup = NoFile
    /\ lru = EmptyCache
    /\ writers = [t \in Tasks |-> IdleWriter]
    /\ sync = NewSync
    /\ work = <<>>

(***************************************************************************)
(* Store and update only                                                   *)
(***************************************************************************)
StoreAny == StoreOf(Contents, {DefaultProfile})
UpdateAny == UpdateOf(Contents, {NoChanges})
NextSU == StoreAny \/ UpdateAny \/ Tick
SpecSU == Init /\ [][NextSU]_vars

(***************************************************************************)
(* Store, update and delete                                                *)
(***************************************************************************)
Next == StoreAny \/ UpdateAny \/ Delete \/ Tick
Spec == Init /\ [][Next]_vars

(***************************************************************************)
(* MemoryConsolidator.boost_on_access                                      *)
(***************************************************************************)
BoostAmount == 10       \* boost_amount = 0.1
MaxImportance == 100    \* max_importance = 1.0
MaxAccess == 1          \* a point is accessed while its access_count is below this

BoostPayload(payload, now) ==
    [importance |-> Min2(MaxImportance, payload.importance + BoostAmount),
     access_count |-> payload.access_count + 1,
     accessed_at |-> now]

\* The stores boost_on_access(memory_id=point_id) can leave: one for each page
\* the sibling scroll can return.
BoostOnAccess(pts, point_id, now) ==
    IF point_id \notin DOMAIN pts THEN {pts}
    ELSE LET boost_payload == BoostPayload(pts[point_id], now)
             pts1 == SetPayload(pts, {point_id}, boost_payload)
         IN  IF ~pts[point_id].is_chunk THEN {pts1}
             ELSE {SetPayload(pts1, siblings \ {point_id}, boost_payload) :
                      siblings \in ScrollPages(WithParent(pts1, pts[point_id].parent_id),
                                               ScrollLimit)}

\* boost_on_access called on its own, on a stored point or on an id that is
\* not stored (MissingPoint).
MissingPoint == <<0, -1>>
Boost ==
    /\ Running
    /\ \E point_id \in DOMAIN points \cup {MissingPoint} :
          /\ point_id \in DOMAIN points => points[point_id].access_count < MaxAccess
          /\ \E pts \in BoostOnAccess(points, point_id, clock) :
                /\ points' = pts
                /\ lastOp' = [op |-> "boost", status |-> "ok", id |-> point_id,
                              found |-> point_id \in DOMAIN points]
    /\ UNCHANGED <<cache, nextId, returned, clock, otherVars>>

(***************************************************************************)
(* MemoryConsolidator.boost_on_access_batch                                *)
(***************************************************************************)
MaxBoostItems == 2    \* items in one batch

\* The items of a batch, all of one collection: ids of stored points and an id
\* that is not stored.
BoostBatches(pts) ==
    UNION {[1..n -> DOMAIN pts \cup {MissingPoint}] : n \in 1..MaxBoostItems}

\* boost_on_access called once per item, in order: the stores that can result.
RECURSIVE BoostSingles(_, _, _)
BoostSingles(pts, items, now) ==
    IF items = <<>> THEN {pts}
    ELSE UNION {BoostSingles(pts1, Tail(items), now) :
                   pts1 \in BoostOnAccess(pts, Head(items), now)}

\* The updates the batch collects for one parent: from the scroll page of its
\* points the values of the first one, written to every point of the page; the
\* point at the parent's id when the scroll finds nothing.
ParentUpdates(pts, parent_id, chunks, first, now) ==
    IF chunks # {}
    THEN [pid \in chunks |-> BoostPayload(pts[first], now)]
    ELSE IF DirectId(parent_id) \in DOMAIN pts
    THEN [pid \in {DirectId(parent_id)} |-> BoostPayload(pts[DirectId(parent_id)], now)]
    ELSE <<>>

\* The stores the batch can leave once every parent of todo is handled.
RECURSIVE BoostParents(_, _, _, _)
BoostParents(pts, todo, updates, now) ==
    IF todo = {}
    THEN {[pid \in DOMAIN pts |->
              IF pid \in DOMAIN updates THEN MergePayload(pts[pid], updates[pid])
              ELSE pts[pid]]}
    ELSE LET parent_id == CHOOSE p \in todo : TRUE
             pages == ScrollPages(WithParent(pts, parent_id), ScrollLimit)
         IN  UNION {BoostParents(pts, todo \ {parent_id},
                                 updates @@ ParentUpdates(pts, parent_id, chunks, first, now),
                                 now) :
                       <<chunks, first>> \in
                           {<<c, f>> \in pages \X (DOMAIN pts \cup {MissingPoint}) :
                               IF c = {} THEN f = MissingPoint ELSE f \in c}}

\* boost_on_access_batch(items): the outcomes.  When store.get finds none of
\* the ids, the loop is left by continue and the final `return new_importance`
\* reads a name that was never bound.
BoostOnAccessBatch(pts, items, now) ==
    LET memory_ids == {items[i] : i \in DOMAIN items}
        results == memory_ids \cap DOMAIN pts
        all_parent_ids == {pts[pid].parent_id : pid \in results}
    IN  IF results = {}
        THEN {[status |-> "UnboundLocalError", points |-> pts]}
        ELSE {[status |-> "ok", points |-> pts1] :
                 pts1 \in BoostParents(pts, all_parent_ids, <<>>, now)}

BoostBatch ==
    /\ Running
    /\ \E items \in BoostBatches(points) :
          /\ \A i \in DOMAIN items :
                 items[i] \in DOMAIN points => points[items[i]].access_count < MaxAccess
          /\ \E outcome \in BoostOnAccessBatch(points, items, clock) :
                /\ points' = outcome.points
                /\ lastOp' = [op |-> "boost_batch", status |-> outcome.status,
                              items |-> items, before |-> points, at |-> clock]
    /\ UNCHANGED <<cache, nextId, returned, clock, otherVars>>

(***************************************************************************)
(* MemoryManager.recall                                                    *)
(***************************************************************************)
DefaultRecallLimit == 5   \* settings.default_recall_limit
MaxHits == 3              \* points one search returns in the model
RecallLimits == {0, 1, 2} \* the limit argument; 0 stands for None as well
Scores == {1, 2}          \* similarity scores above min_score

\* vector_store.search(limit=fetch_limit): at most fetch_limit stored points,
\* each once, best score first.
SearchResults(pts, fetch_limit) ==
    LET most == Min2(Min2(fetch_limit, MaxHits), Cardinality(DOMAIN pts))
        Ranked(n) == {h \in [1..n -> (DOMAIN pts) \X Scores] :
                         /\ \A i, j \in 1..n : i # j => h[i][1] # h[j][1]
                         /\ \A i \in 1..n : i < n => h[i][2] >= h[i + 1][2]}
    IN  {[i \in DOMAIN h |-> [id |-> h[i][1], score |-> h[i][2], payload |-> pts[h[i][1]]]] :
            h \in UNION {Ranked(n) : n \in 0..most}}

\* A recall that keeps one entry per matched point.
DedupeByPointId(sr) == sr.id

\* The key recall deduplicates on: sr.payload.get("parent_id", sr.id); every
\* point store() and update() write carries parent_id.
DedupeKey(sr) == sr.payload.parent_id

\* The dict best_by_parent as the sequence of its items in insertion order,
\* after the search results from position i on are folded in.
RECURSIVE BestByParent(_, _, _)
BestByParent(all_results, i, best) ==
    IF i > Len(all_results) THEN best
    ELSE LET sr == all_results[i]
             parent_id == DedupeKey(sr)
             at == {k \in 1..Len(best) : best[k].key = parent_id}
         IN  BestByParent(all_results, i + 1,
                 IF at = {} THEN Append(best, [key |-> parent_id, sr |-> sr])
                 ELSE LET slot == CHOOSE k \in at : TRUE
                      IN  IF sr.score > best[slot].sr.score
                          THEN [best EXCEPT ![slot].sr = sr]
                          ELSE best)

\* The stores the calls boost_on_access(memory_id=sr.id), made for each entry
\* of best from position i on, can leave.
RECURSIVE BoostEach(_, _, _, _)
BoostEach(pts, best, i, now) ==
    IF i > Len(best) THEN {pts}
    ELSE UNION {BoostEach(pts1, best, i + 1, now) :
                   pts1 \in BoostOnAccess(pts, best[i].sr.id, now)}

\* list.sort(key=score, reverse=True): stable, highest score first.
RECURSIVE SortByScore(_, _)
SortByScore(results, score) ==
    IF score < SetMin(Scores) THEN <<>>
    ELSE SelectSeq(results, LAMBDA r : r.score = score) \o SortByScore(results, score - 1)

\* A recall that builds its results from the store once the boosts are done.
RecallResultReread(item, boosted) ==
    [memory |-> FromPayload(item.key, boosted[item.sr.id]), score |-> item.sr.score,
     parent_id |-> item.sr.payload.parent_id, point_id |-> item.sr.id]

\* RecallResult(memory=MemoryItem.from_payload(parent_id, sr.payload), score):
\* the memory is built from the payload the search returned, whatever the
\* store (boosted) holds by then.  parent_id and point_id note the logical
\* memory and the matched point.
RecallResult(item, boosted) ==
    [memory |-> FromPayload(item.key, item.sr.payload), score |-> item.sr.score,
     parent_id |-> item.sr.payload.parent_id, point_id |-> item.sr.id]

Recall ==
    /\ Running
    /\ \E limit_arg \in RecallLimits :
          LET limit == IF limit_arg = 0 THEN DefaultRecallLimit ELSE limit_arg
              fetch_limit == limit * 3
          IN  \E all_results \in SearchResults(points, fetch_limit) :
                 LET best == BestByParent(all_results, 1, <<>>)
                 IN  /\ \A i \in 1..Len(all_results) :
                            all_results[i].payload.access_count < MaxAccess
                     /\ \E pts \in BoostEach(points, best, 1, clock) :
                            LET deduped == [i \in 1..Len(best) |->
                                               RecallResult(best[i], pts)]
                                sorted == SortByScore(deduped, SetMax(Scores))
                                results == SubSeq(sorted, 1, Min2(limit, Len(sorted)))
                            IN  /\ points' = pts
                                /\ lastOp' = [op |-> "recall", status |-> "ok",
                                              limit |-> limit,
                                              hits |-> Len(all_results),
                                              parents |-> Len(best),
                                              results |-> results]
    /\ UNCHANGED <<cache, nextId, returned, clock, otherVars>>

(***************************************************************************)
(* MemoryConsolidator.consolidate                                          *)
(***************************************************************************)
MaxClusterSize == 1   \* max_cluster_size of the model (10 by default)

\* A maintenance operation that writes whatever dry_run says.
WritesAlways(dry_run) == TRUE

\* "if not dry_run": the guard of every write of consolidate, apply_forgetting
\* and decay_importance.
MayWrite(dry_run) == ~dry_run

\* payload.get("chunk_index", 0)
ChunkIndexOf(payload) == IF payload.chunk_index = NoIndex THEN 0 ELSE payload.chunk_index

RECURSIVE SumAccess(_, _)
SumAccess(pts, ids) ==
    IF ids = {} THEN 0
    ELSE LET id == CHOOSE x \in ids : TRUE
         IN  pts[id].access_count + SumAccess(pts, ids \ {id})

\* _merge_memories(primary, duplicates): primary is the scrolled point,
\* duplicates the ids of search results, read from the store pts.
MergeMemories(pts, primary_id, primary, duplicates, now) ==
    LET payload ==
            [tags |-> primary.tags \cup UNION {pts[d].tags : d \in duplicates},
             importance |-> SetMax({primary.importance} \cup
                                   {pts[d].importance : d \in duplicates}),
             access_count |-> primary.access_count + SumAccess(pts, duplicates),
             merged_from |-> duplicates,
             merged_at |-> now]
    IN  DeleteIds(SetPayload(pts, {primary_id}, payload), duplicates)

\* A filter that only drops the processed points and the point itself.
KeepAllButSelf(pts, s, memory_id, parent_id, processed_ids) ==
    /\ s \notin processed_ids
    /\ s # memory_id

\* The filter consolidate applies to the search results of one representative.
IsDuplicate(pts, s, memory_id, parent_id, processed_ids) ==
    /\ s \notin processed_ids
    /\ s # memory_id
    /\ pts[s].parent_id # parent_id
    /\ ChunkIndexOf(pts[s]) = 0

\* store.search(vector=memory.vector, limit=max_cluster_size + 1): any stored
\* points can be the similar ones.
SimilarResults(pts) ==
    {found \in SUBSET DOMAIN pts : Cardinality(found) <= MaxClusterSize + 1}

\* The outcomes of the loop over all_memories (the points scrolled at the
\* start) once the points in visited have had their turn.  A point that is
\* skipped changes nothing, so the loop goes from one representative that is
\* not processed to the next, in any order.
RECURSIVE ConsolidateLoop(_, _, _, _, _, _, _, _)
ConsolidateLoop(pts, all_memories, visited, processed_ids, merges, writes, dry_run, now) ==
    LET waiting == {id \in DOMAIN all_memories \ visited :
                       /\ id \notin processed_ids
                       /\ ~(ChunkIndexOf(all_memories[id]) > 0)}
    IN  IF waiting = {}
        THEN {[points |-> pts, merges |-> merges, writes |-> writes]}
        ELSE UNION {UNION {
                 LET parent_id == all_memories[memory_id].parent_id
                     similar == {s \in found :
                                    IsDuplicate(pts, s, memory_id, parent_id, processed_ids)}
                     merge == [primary |-> memory_id, parent_id |-> parent_id,
                               duplicates |-> similar,
                               duplicate_parents |-> {pts[s].parent_id : s \in similar},
                               own_parts_found |->
                                   {s \in found \ {memory_id} : pts[s].parent_id = parent_id}]
                 IN  IF similar = {}
                     THEN ConsolidateLoop(pts, all_memories, visited \cup {memory_id},
                                          processed_ids, merges, writes, dry_run, now)
                     ELSE ConsolidateLoop(
                              IF MayWrite(dry_run)
                              THEN MergeMemories(pts, memory_id, all_memories[memory_id],
                                                 similar, now)
                              ELSE pts,
                              all_memories, visited \cup {memory_id},
                              processed_ids \cup {memory_id} \cup similar,
                              Append(merges, merge),
                              IF MayWrite(dry_run) THEN writes + 2 ELSE writes,
                              dry_run, now)
                 : found \in SimilarResults(pts)}
               : memory_id \in waiting}

RECURSIVE MergedCount(_)
MergedCount(merges) ==
    IF merges = <<>> THEN 0
    ELSE Cardinality(Head(merges).duplicates) + MergedCount(Tail(merges))

Consolidate ==
    /\ Running
    /\ \E dry_run \in BOOLEAN :
       \E outcome \in ConsolidateLoop(points, points, {}, {}, <<>>, 0, dry_run, clock) :
          /\ points' = outcome.points
          /\ lastOp' = [op |-> "consolidate", status |-> "ok", dry_run |-> dry_run,
                        merges |-> outcome.merges,
                        merged_count |-> MergedCount(outcome.merges),
                        writes |-> outcome.writes]
          /\ dryDone' = IF dry_run /\ outcome.merges # <<>>
                        THEN dryDone \cup {"consolidate"} ELSE dryDone
    /\ UNCHANGED <<cache, nextId, returned, clock, chunker, guardVars, graphVars,
                   sessionVars, taskVars>>

(***************************************************************************)
(* MemoryConsolidator.apply_forgetting and decay_importance                 *)
(***************************************************************************)
MinImportance == 30     \* min_importance = 0.3
MinAccessCount == 1     \* min_access_count = 1
ImportanceFloor == 10   \* max(0.1, new_importance)
DecayStep == 1          \* abs(new_importance - current_importance) > 0.01
AgeLimits == {0, 1}     \* max_age_days / min_days_since_access, in clock ticks
DecayRates == {50}      \* decay_rate, in hundredths

\* The parent ids apply_forgetting collects from the representative points.
ForgetCandidates(pts, max_age_days, now) ==
    {pts[id].parent_id : id \in
        {id \in DOMAIN pts :
            /\ ~(ChunkIndexOf(pts[id]) > 0)
            /\ pts[id].accessed_at < now - max_age_days
            /\ pts[id].importance < MinImportance
            /\ pts[id].access_count < MinAccessCount}}

\* delete(filter_conditions={"parent_id": parent_id}), then delete(ids=[parent_id])
ForgetAll(pts, candidates) ==
    DeleteIds(pts, {id \in DOMAIN pts : pts[id].parent_id \in candidates}
                   \cup {DirectId(parent_id) : parent_id \in candidates})

ApplyForgetting ==
    /\ Running
    /\ \E dry_run \in BOOLEAN, max_age_days \in AgeLimits :
          LET candidates == ForgetCandidates(points, max_age_days, clock)
              deleting == MayWrite(dry_run) /\ candidates # {}
          IN  /\ points' = IF deleting THEN ForgetAll(points, candidates) ELSE points
              /\ lastOp' = [op |-> "apply_forgetting", status |-> "ok",
                            dry_run |-> dry_run,
                            forgotten_count |-> Cardinality(candidates),
                            writes |-> IF deleting THEN 2 * Cardinality(candidates) ELSE 0]
              /\ dryDone' = IF dry_run /\ candidates # {}
                            THEN dryDone \cup {"apply_forgetting"} ELSE dryDone
    /\ UNCHANGED <<cache, nextId, returned, clock, chunker, guardVars, graphVars,
                   sessionVars, taskVars>>

\* decay_rate ** days_since
RECURSIVE Power(_, _)
Power(base, exponent) == IF exponent = 0 THEN 1 ELSE base * Power(base, exponent - 1)

\* max(0.1, current_importance * decay_rate ** days_since), in hundredths
Decayed(importance, decay_rate, days_since) ==
    Max2(ImportanceFloor, (importance * Power(decay_rate, days_since))
                              \div Power(100, days_since))

\* The points whose importance decay_importance would rewrite.
DecayTargets(pts, decay_rate, min_days_since_access, now) ==
    {id \in DOMAIN pts :
        /\ ~(pts[id].accessed_at >= now - min_days_since_access)
        /\ LET new_importance == Decayed(pts[id].importance, decay_rate,
                                         now - pts[id].accessed_at)
               change == new_importance - pts[id].importance
           IN  Max2(change, -change) > DecayStep}

DecayImportance ==
    /\ Running
    /\ \E dry_run \in BOOLEAN, min_days_since_access \in AgeLimits,
          decay_rate \in DecayRates :
          LET targets == DecayTargets(points, decay_rate, min_days_since_access, clock)
              updated == IF MayWrite(dry_run) THEN targets ELSE {}
          IN  /\ points' = [id \in DOMAIN points |->
                               IF id \in updated
                               THEN MergePayload(points[id],
                                        [importance |->
                                            Decayed(points[id].importance, decay_rate,
                                                    clock - points[id].accessed_at)])
                               ELSE points[id]]
              /\ lastOp' = [op |-> "decay_importance", status |-> "ok",
                            dry_run |-> dry_run,
                            updated_count |-> Cardinality(updated),
                            writes |-> Cardinality(updated)]
              /\ dryDone' = IF dry_run /\ targets # {}
                            THEN dryDone \cup {"decay_importance"} ELSE dryDone
    /\ UNCHANGED <<cache, nextId, returned, clock, chunker, guardVars, graphVars,
                   sessionVars, taskVars>>

(***************************************************************************)
(* Store and boost                                                         *)
(***************************************************************************)
StoreChunked == StoreOf({ShortText, TwoChunkText, ThreeChunkText}, {DefaultProfile, HighProfile})
NextBoost == StoreChunked \/ Boost \/ Tick
SpecBoost == Init /\ [][NextBoost]_vars

(***************************************************************************)
(* Every operation that writes an importance                               *)
(***************************************************************************)
StoreWeighted == StoreOf({ShortText}, {HighProfile, OutOfRangeProfile})
UpdateWeighted == UpdateOf({ShortText}, {Overweight})
NextImportance ==
    StoreWeighted \/ UpdateWeighted \/ Boost \/ DecayImportance \/ Consolidate \/ Tick
SpecImportance == Init /\ [][NextImportance]_vars

(***************************************************************************)
(* Store and recall                                                        *)
(***************************************************************************)
StoreRecallable == StoreOf({ShortText, TwoChunkText}, {DefaultProfile})
NextRecall == StoreRecallable \/ Recall \/ Tick
SpecRecall == Init /\ [][NextRecall]_vars

(***************************************************************************)
(* Store and boost in batches                                              *)
(***************************************************************************)
NextBoostBatch == StoreRecallable \/ BoostBatch \/ Tick
SpecBoostBatch == Init /\ [][NextBoostBatch]_vars

(***************************************************************************)
(* Store and maintenance                                                   *)
(***************************************************************************)
StoreSimilar == StoreOf({ShortText, TwoChunkText}, {DefaultProfile, LowProfile})
NextConsolidate ==
    StoreSimilar \/ Consolidate \/ ApplyForgetting \/ DecayImportance \/ Tick
SpecConsolidate == Init /\ [][NextConsolidate]_vars

(***************************************************************************)
(* MemoryBackup                                                            *)
(***************************************************************************)
ExportPageSize == 2    \* scroll(limit=100) of _scroll_collection, scaled

ChunkFields == {"is_chunk", "parent_id", "chunk_index", "chunk_count", "full_content"}

\* The order in which scroll returns the points is the order of their ids,
\* which for chunk points are uuid5 digests: by index, or against it.
ScrollOrders == {"ascending", "descending"}
OrderKey(pid, order) ==
    IF order = "ascending" THEN 10 * pid[1] + pid[2] ELSE 0 - (10 * pid[1] + pid[2])
RECURSIVE Scrolled(_, _)
Scrolled(ids, order) ==
    IF ids = {} THEN <<>>
    ELSE LET first == CHOOSE pid \in ids :
                          \A other \in ids : OrderKey(pid, order) <= OrderKey(other, order)
         IN  <<first>> \o Scrolled(ids \ {first}, order)

\* result.payload.get("parent_id", result.id); the id of the point at a
\* memory's id is the memory's id.
ParentOf(pid, payload) ==
    IF "parent_id" \in DOMAIN payload THEN payload.parent_id ELSE pid[1]
HasFullContent(payload) ==
    "full_content" \in DOMAIN payload /\ payload.full_content # NoText

\* An export that leaves the content of the point it met as it is.
CleanPayloadOfPoint(payload) ==
    [k \in DOMAIN payload \ ChunkFields |-> payload[k]]

\* _scroll_collection: content := full_content when there is one, and the
\* chunk fields are removed.
CleanPayload(payload) ==
    [k \in DOMAIN payload \ ChunkFields |->
        IF k = "content" /\ HasFullContent(payload) THEN payload.full_content
        ELSE payload[k]]

\* _scroll_collection: page after page until scroll gives no next offset, one
\* entry for the first point met of each parent.
RECURSIVE ScrollPage(_, _, _, _, _)
ScrollPage(pts, results, with_vectors, seen_parents, out) ==
    IF results = <<>> THEN [seen_parents |-> seen_parents, out |-> out]
    ELSE LET pid == Head(results)
             parent_id == ParentOf(pid, pts[pid])
         IN  IF parent_id \in seen_parents
             THEN ScrollPage(pts, Tail(results), with_vectors, seen_parents, out)
             ELSE ScrollPage(pts, Tail(results), with_vectors,
                             seen_parents \cup {parent_id},
                             Append(out, [id |-> parent_id,
                                          payload |-> CleanPayload(pts[pid]),
                                          has_vector |-> with_vectors]))

RECURSIVE ScrollCollection(_, _, _, _, _, _)
ScrollCollection(pts, all, offset, with_vectors, seen_parents, out) ==
    LET results == SubSeq(all, offset, Min2(offset + ExportPageSize - 1, Len(all)))
        done == ScrollPage(pts, results, with_vectors, seen_parents, out)
        more == offset + ExportPageSize <= Len(all)
    IN  IF ~more THEN done.out
        ELSE ScrollCollection(pts, all, offset + ExportPageSize, with_vectors,
                              done.seen_parents, done.out)

\* export_to_json / export_to_jsonl
Export ==
    /\ Running
    /\ \E include_vectors \in BOOLEAN, order \in ScrollOrders :
          LET memories == ScrollCollection(points, Scrolled(DOMAIN points, order), 1,
                                           include_vectors, {}, <<>>)
          IN  /\ backup' = [written |-> TRUE, include_vectors |-> include_vectors,
                            entries |-> memories]
              /\ lastOp' = [op |-> "export", status |-> "ok",
                            total_memories |-> Len(memories)]
    /\ UNCHANGED <<points, cache, nextId, returned, clock, chunker, dryDone,
                   guardVars, graphVars, lru, taskVars>>

\* A delete that treats an empty filter as the filter every point matches.
StoreDeleteMatchingAll(pts, ids, filter_conditions) ==
    IF ids # {} THEN DeleteIds(pts, ids)
    ELSE DeleteIds(pts, {pid \in DOMAIN pts :
                            \A k \in DOMAIN filter_conditions :
                                k \in DOMAIN pts[pid] /\ pts[pid][k] = filter_conditions[k]})

\* QdrantStore.delete: by ids when ids is not empty, by filter when
\* filter_conditions is not empty, and nothing otherwise.
StoreDelete(pts, ids, filter_conditions) ==
    IF ids # {} THEN DeleteIds(pts, ids)
    ELSE IF DOMAIN filter_conditions # {}
    THEN DeleteIds(pts, {pid \in DOMAIN pts :
                            \A k \in DOMAIN filter_conditions :
                                k \in DOMAIN pts[pid] /\ pts[pid][k] = filter_conditions[k]})
    ELSE pts

\* import: the loop over the memories of the file; one without a vector is
\* skipped.
RECURSIVE ImportLoop(_, _, _, _)
ImportLoop(pts, memories, include_vectors, count) ==
    IF memories = <<>> THEN [points |-> pts, count |-> count]
    ELSE LET memory == Head(memories)
         IN  IF ~include_vectors \/ ~memory.has_vector
             THEN ImportLoop(pts, Tail(memories), include_vectors, count)
             ELSE ImportLoop(Upsert(pts, [pid \in {DirectId(memory.id)} |-> memory.payload]),
                             Tail(memories), include_vectors, count + 1)

\* import_from_json / import_from_jsonl of the file the export wrote
Import ==
    /\ Running
    /\ backup.written
    /\ \E merge \in BOOLEAN :
          LET cleared == IF merge THEN points ELSE StoreDelete(points, {}, NoPatch)
              done == ImportLoop(cleared, backup.entries, backup.include_vectors, 0)
          IN  /\ points' = done.points
              /\ lastOp' = [op |-> "import", status |-> "ok", merge_mode |-> merge,
                            total_imported |-> done.count]
    /\ UNCHANGED <<cache, nextId, returned, clock, chunker, dryDone,
                   guardVars, graphVars, sessionVars, taskVars>>

StoreExportable == StoreOf({ShortText, TwoChunkText, ThreeChunkText}, {DefaultProfile})
NextBackup == StoreExportable \/ Export \/ Import
SpecBackup == Init /\ [][NextBackup]_vars

(***************************************************************************)
(* MemoryManager.update when a call after the first delete raises           *)
(***************************************************************************)
\* The awaited call of the content branch that raises: store() (its embed or
\* upsert), the delete of the points store() wrote under the new id, or the
\* embed or upsert that re-creates the points under the original id.
UpdateStages == {"store", "delete_new", "recreate"}

\* update(memory_id, content=content) whose call at stage raises.  Nothing in
\* update catches it and nothing restores the points deleted before it.
UpdateContentFailing ==
    /\ Running
    /\ nextId <= MaxIds
    /\ \E memory_id \in 1..MaxIds, content \in {ShortText, TwoChunkText},
          stage \in UpdateStages :
          LET existing == Get(points, cache, memory_id)
          IN  /\ existing # NoMemory
              /\ content # existing.content
              /\ \E page1 \in ScrollPages(WithParent(points, memory_id), ScrollLimit) :
                    LET pts1 == DeleteMemoryPoints(points, memory_id, page1)
                        temp == CreateMemory(nextId, content, existing.tags,
                                             existing.importance, clock)
                        pts2 == Upsert(pts1, BuildPoints(temp, clock))
                        cache1 == CacheMemory(cache, temp)
                    IN  /\ lastOp' = [op |-> "update", status |-> "error",
                                      id |-> memory_id, kind |-> "content",
                                      stage |-> stage, new_id |-> nextId,
                                      mixed |-> MixedPointSet(points, memory_id)]
                        /\ IF stage = "store"
                           THEN /\ points' = pts1
                                /\ UNCHANGED <<cache, nextId>>
                           ELSE IF stage = "delete_new"
                           THEN /\ points' = pts2
                                /\ cache' = cache1
                                /\ nextId' = nextId + 1
                           ELSE \E page2 \in ScrollPages(WithParent(pts2, nextId), ScrollLimit) :
                                   /\ points' = DeleteMemoryPoints(pts2, nextId, page2)
                                   /\ cache' = cache1
                                   /\ nextId' = nextId + 1
    /\ UNCHANGED <<returned, clock, otherVars>>

UpdateRecallable == UpdateOf({ShortText, TwoChunkText}, {NoChanges})
NextUpdateFailing == StoreRecallable \/ UpdateRecallable \/ UpdateContentFailing \/ Tick
SpecUpdateFailing == Init /\ [][NextUpdateFailing]_vars

(***************************************************************************)
(* MemoryManager.update, one awaited call at a time                         *)
(***************************************************************************)
\* update() holds no lock, so between two of its awaits another update of the
\* same memory can run.  The awaits of the content branch, in order: get,
\* the get and scroll of _get_memory_point_ids, delete, store (whose upsert
\* writes the copy under a new id), _delete_memory_points of that copy, the
\* upsert under the original id, and the final get.
MaxTaskIds == 4    \* uuid4 values the stores inside update may draw
UpdateTexts == {ShortText, TwoChunkText, ThreeChunkText}

WriterAt(t, pc) == writers[t].pc = pc
Moved(t, pc) == [writers EXCEPT ![t].pc = pc]

UpdBegin(t) ==
    /\ WriterAt(t, "idle")
    /\ \E memory_id \in 1..MaxIds, content \in UpdateTexts :
          LET existing == Get(points, cache, memory_id)
          IN  /\ existing # NoMemory
              /\ content # existing.content
              /\ writers' = [writers EXCEPT ![t] =
                                [pc |-> "collect", memory_id |-> memory_id,
                                 content |-> content, existing |-> existing]]
    /\ UNCHANGED <<memVars, clock, chunker, dryDone, guardVars, graphVars, sessionVars, sync, work>>

UpdCollect(t) ==
    /\ WriterAt(t, "collect")
    /\ \E page \in ScrollPages(WithParent(points, writers[t].memory_id), ScrollLimit) :
          writers' = [writers EXCEPT
                         ![t] = [pc |-> "delete", memory_id |-> @.memory_id,
                                 content |-> @.content, existing |-> @.existing,
                                 point_ids |->
                                     GetMemoryPointIds(points, @.memory_id, page)]]
    /\ UNCHANGED <<memVars, clock, chunker, dryDone, guardVars, graphVars, sessionVars, sync, work>>

UpdDelete(t) ==
    /\ WriterAt(t, "delete")
    /\ points' = DeleteIds(points, writers[t].point_ids)
    /\ writers' = Moved(t, "store")
    /\ UNCHANGED <<cache, nextId, lastOp, returned, clock, chunker, dryDone, guardVars,
                   graphVars, sessionVars, sync, work>>

UpdStore(t) ==
    /\ WriterAt(t, "store")
    /\ nextId <= MaxTaskIds
    /\ LET w == writers[t]
           temp == CreateMemory(nextId, w.content, w.existing.tags,
                                w.existing.importance, clock)
       IN  /\ points' = Upsert(points, BuildPoints(temp, clock))
           /\ cache' = CacheMemory(cache, temp)
           /\ nextId' = nextId + 1
           /\ writers' = [writers EXCEPT
                             ![t] = [pc |-> "delete_new", memory_id |-> w.memory_id,
                                     content |-> w.content, existing |-> w.existing,
                                     new_id |-> nextId]]
    /\ UNCHANGED <<lastOp, returned, clock, chunker, dryDone, guardVars, graphVars,
                   sessionVars, sync, work>>

UpdDeleteNew(t) ==
    /\ WriterAt(t, "delete_new")
    /\ \E page \in ScrollPages(WithParent(points, writers[t].new_id), ScrollLimit) :
          points' = DeleteMemoryPoints(points, writers[t].new_id, page)
    /\ writers' = Moved(t, "recreate")
    /\ UNCHANGED <<cache, nextId, lastOp, returned, clock, chunker, dryDone, guardVars,
                   graphVars, sessionVars, sync, work>>

UpdRecreate(t) ==
    /\ WriterAt(t, "recreate")
    /\ LET w == writers[t]
           updated_memory ==
               [CreateMemory(w.memory_id, w.content, w.existing.tags,
                             w.existing.importance, clock)
                   EXCEPT !.created_at = w.existing.created_at]
       IN  points' = Upsert(points, BuildPoints(updated_memory, clock))
    /\ writers' = Moved(t, "finish")
    /\ UNCHANGED <<cache, nextId, lastOp, returned, clock, chunker, dryDone, guardVars,
                   graphVars, sessionVars, sync, work>>

UpdFinish(t) ==
    /\ WriterAt(t, "finish")
    /\ LET w == writers[t]
           cache2 == Invalidate(cache, w.memory_id)
           result == Get(points, cache2, w.memory_id)
       IN  /\ cache' = cache2
           /\ returned' = IF result = NoMemory THEN returned
                          ELSE returned \cup {result.id}
           /\ lastOp' = [op |-> "update", status |-> "ok", id |-> w.memory_id,
                         kind |-> "content", content |-> w.content,
                         created_before |-> w.existing.created_at,
                         result |-> result, mixed |-> FALSE, task |-> t]
    /\ writers' = Moved(t, "done")
    /\ UNCHANGED <<points, nextId, clock, chunker, dryDone, guardVars, graphVars,
                   sessionVars, sync, work>>

UpdBeginAny == \E t \in Tasks : UpdBegin(t)
UpdCollectAny == \E t \in Tasks : UpdCollect(t)
UpdDeleteAny == \E t \in Tasks : UpdDelete(t)
UpdStoreAny == \E t \in Tasks : UpdStore(t)
UpdDeleteNewAny == \E t \in Tasks : UpdDeleteNew(t)
UpdRecreateAny == \E t \in Tasks : UpdRecreate(t)
UpdFinishAny == \E t \in Tasks : UpdFinish(t)

StoreShort == StoreOf({ShortText, TwoChunkText}, {DefaultProfile})
NextWriters ==
    \/ StoreShort \/ UpdBeginAny \/ UpdCollectAny \/ UpdDeleteAny \/ UpdStoreAny
    \/ UpdDeleteNewAny \/ UpdRecreateAny \/ UpdFinishAny
SpecWriters == Init /\ [][NextWriters]_vars

(***************************************************************************)
(* Maintenance when one store call raises                                   *)
(***************************************************************************)
\* The elements of seq that come before x, and those that come after it.
Position(seq, x) == CHOOSE i \in DOMAIN seq : seq[i] = x
BeforeIn(seq, x) == {seq[i] : i \in 1..(Position(seq, x) - 1)}
AfterIn(seq, x) == {seq[i] : i \in (Position(seq, x) + 1)..Len(seq)}

\* decay_importance(dry_run=False) when update_payload raises for the point
\* failing: the call is not inside any try, so the exception leaves the scroll
\* loop and the method; the points scrolled before it are written, the others
\* are not, and no ConsolidationResult is returned.
DecayImportanceFailing ==
    /\ Running
    /\ \E min_days_since_access \in AgeLimits, decay_rate \in DecayRates,
          order \in ScrollOrders :
          LET targets == DecayTargets(points, decay_rate, min_days_since_access, clock)
              scrolled == Scrolled(DOMAIN points, order)
          IN  \E failing \in targets :
                 LET updated == targets \cap BeforeIn(scrolled, failing)
                 IN  /\ points' = [id \in DOMAIN points |->
                                      IF id \in updated
                                      THEN MergePayload(points[id],
                                               [importance |->
                                                   Decayed(points[id].importance, decay_rate,
                                                           clock - points[id].accessed_at)])
                                      ELSE points[id]]
                     /\ lastOp' = [op |-> "decay_importance", status |-> "error",
                                   dry_run |-> FALSE, failing |-> failing,
                                   writes |-> Cardinality(updated),
                                   unprocessed |-> targets \cap AfterIn(scrolled, failing)]
    /\ UNCHANGED <<cache, nextId, returned, clock, chunker, dryDone, guardVars, graphVars,
                   sessionVars, taskVars>>

\* apply_forgetting(dry_run=False) when delete(filter_conditions={"parent_id":
\* parent_id}) raises for the candidate failing: only the second delete of each
\* candidate is inside a try, so the exception leaves the loop over the
\* candidates and the method.
ApplyForgettingFailing ==
    /\ Running
    /\ \E max_age_days \in AgeLimits, order \in ScrollOrders :
          LET candidates == ForgetCandidates(points, max_age_days, clock)
              scrolled == Scrolled({DirectId(c) : c \in candidates}, order)
          IN  \E failing \in candidates :
                 LET deleted == {pid[1] : pid \in BeforeIn(scrolled, DirectId(failing))}
                 IN  /\ points' = ForgetAll(points, deleted)
                     /\ lastOp' = [op |-> "apply_forgetting", status |-> "error",
                                   dry_run |-> FALSE, failing |-> failing,
                                   writes |-> 2 * Cardinality(deleted),
                                   unprocessed |->
                                       {pid[1] : pid \in AfterIn(scrolled, DirectId(failing))}]
    /\ UNCHANGED <<cache, nextId, returned, clock, chunker, dryDone, guardVars, graphVars,
                   sessionVars, taskVars>>

StoreForgettable == StoreOf({ShortText, TwoChunkText}, {LowProfile})
NextFailing ==
    \/ StoreForgettable \/ ApplyForgetting \/ DecayImportance
    \/ ApplyForgettingFailing \/ DecayImportanceFailing \/ Tick
SpecFailing == Init /\ [][NextFailing]_vars

(***************************************************************************)
(* scripts/sync_qdrant.py: the bidirectional sync of two Qdrant nodes      *)
(***************************************************************************)
MaxSyncIds == 2     \* point ids the two nodes hold in one behaviour
MaxSyncTime == 1    \* datetime.now() stops advancing here
SyncIds == 1..MaxSyncIds
NoStamp == 0 - 1    \* the payload has no such key
Epoch == 0          \* datetime(1970, 1, 1)
Other(node) == IF node = "local" THEN "remote" ELSE "local"

\* get_point_timestamp: updated_at, else created_at, else the epoch.
PointTimestamp(payload) ==
    IF payload.updated_at # NoStamp THEN payload.updated_at
    ELSE IF payload.created_at # NoStamp THEN payload.created_at
    ELSE Epoch

\* The four lists sync_collection fills from the points it fetched.
OnlyOn(here, there) == DOMAIN here \ DOMAIN there
NewOnOneSide(here, there, last_sync) ==
    {id \in OnlyOn(here, there) :
        last_sync = NoSync \/ PointTimestamp(here[id]) > last_sync}
Newer(here, there) ==
    {id \in DOMAIN here \cap DOMAIN there :
        PointTimestamp(here[id]) > PointTimestamp(there[id])}
SyncPlan(local, remote, last_sync) ==
    [to_remote |-> Newer(local, remote) \cup NewOnOneSide(local, remote, last_sync),
     to_local |-> Newer(remote, local) \cup NewOnOneSide(remote, local, last_sync),
     delete_from_local |-> OnlyOn(local, remote) \ NewOnOneSide(local, remote, last_sync),
     delete_from_remote |-> OnlyOn(remote, local) \ NewOnOneSide(remote, local, last_sync)]

\* upsert_points and delete_points on one node.
Upserted(node_points, from, ids) ==
    [id \in DOMAIN node_points \cup ids |->
        IF id \in ids THEN from[id] ELSE node_points[id]]
Deleted(node_points, ids) ==
    [id \in DOMAIN node_points \ ids |-> node_points[id]]

\* main with what get_all_points returned for each node: everything, or
\* nothing when the scroll request failed.
SyncRun(dry_run, reset_state, fetched) ==
    LET last_sync == IF reset_state THEN NoSync ELSE sync.last_sync
        local == IF "local" \in fetched THEN sync.nodes["local"] ELSE <<>>
        remote == IF "remote" \in fetched THEN sync.nodes["remote"] ELSE <<>>
        plan == SyncPlan(local, remote, last_sync)
        new_local == Deleted(Upserted(sync.nodes["local"], remote, plan.to_local),
                             plan.delete_from_local)
        new_remote == Deleted(Upserted(sync.nodes["remote"], local, plan.to_remote),
                              plan.delete_from_remote)
        nodes == [n \in SyncNodes |-> IF n = "local" THEN new_local ELSE new_remote]
    IN  /\ sync' = IF dry_run THEN sync
                   ELSE [nodes |-> nodes,
                         last_sync |-> clock,
                         seen |-> [n \in SyncNodes |-> sync.seen[n] \cup DOMAIN nodes[n]],
                         both |-> DOMAIN new_local \cap DOMAIN new_remote]
        /\ lastOp' = [op |-> "sync", status |-> "ok", dry_run |-> dry_run,
                      reset_state |-> reset_state, last_sync |-> last_sync,
                      fetched |-> fetched, at |-> clock,
                      only |-> [n \in SyncNodes |->
                                   DOMAIN sync.nodes[n] \ DOMAIN sync.nodes[Other(n)]],
                      copied |-> [n \in SyncNodes |->
                                     IF n = "local" THEN plan.to_local ELSE plan.to_remote],
                      deleted |-> [n \in SyncNodes |->
                                      IF n = "local" THEN plan.delete_from_local
                                      ELSE plan.delete_from_remote],
                      seen |-> sync.seen, both |-> sync.both,
                      present |-> [n \in SyncNodes |-> DOMAIN nodes[n]]]
        /\ UNCHANGED <<points, cache, nextId, returned, clock, limiterVars, breakerVars,
                       chunker, dryDone, guardVars, graphVars, sessionVars, writers, work>>

Sync == \E dry_run \in BOOLEAN, reset_state \in BOOLEAN :
            SyncRun(dry_run, reset_state, SyncNodes)

SyncFetchFailing == \E node \in SyncNodes : SyncRun(FALSE, FALSE, SyncNodes \ {node})

\* What happens on one node between two syncs: a memory is stored there (or
\* imported with the timestamps of its file, or written by a tool that sets
\* none), updated, or deleted.
NodeFrame ==
    UNCHANGED <<points, cache, nextId, returned, clock, limiterVars, breakerVars,
                chunker, dryDone, guardVars, graphVars, sessionVars, writers, work>>

CreatePoint(node) ==
    /\ \E id \in SyncIds \ UNION {sync.seen[n] : n \in SyncNodes},
          created_at \in {NoStamp} \cup 0..clock :
          /\ sync' = [sync EXCEPT
                         !.nodes[node] = Upserted(@, [i \in {id} |->
                                             [created_at |-> created_at,
                                              updated_at |-> NoStamp]], {id}),
                         !.seen[node] = @ \cup {id}]
          /\ lastOp' = [op |-> "create_point", status |-> "ok", node |-> node, id |-> id]
    /\ NodeFrame

UpdatePoint(node) ==
    /\ \E id \in DOMAIN sync.nodes[node] :
          /\ sync.nodes[node][id].updated_at # clock
          /\ sync' = [sync EXCEPT !.nodes[node][id].updated_at = clock]
          /\ lastOp' = [op |-> "update_point", status |-> "ok", node |-> node, id |-> id]
    /\ NodeFrame

DeletePoint(node) ==
    /\ \E id \in DOMAIN sync.nodes[node] :
          /\ sync' = [sync EXCEPT !.nodes[node] = Deleted(@, {id})]
          /\ lastOp' = [op |-> "delete_point", status |-> "ok", node |-> node, id |-> id]
    /\ NodeFrame

CreatePointAny == \E node \in SyncNodes : CreatePoint(node)
UpdatePointAny == \E node \in SyncNodes : UpdatePoint(node)
DeletePointAny == \E node \in SyncNodes : DeletePoint(node)
SyncTick == TickUpTo(MaxSyncTime)

NextSync ==
    \/ CreatePointAny
    \/ UpdatePointAny
    \/ DeletePointAny
    \/ Sync
    \/ SyncFetchFailing
    \/ SyncTick

SpecSync == Init /\ [][NextSync]_vars

(***************************************************************************)
(* WorkTracker: start, pause, resume and stop of work sessions             *)
(***************************************************************************)
MaxSessions == 3    \* rows of work_sessions in one behaviour

\* The table as the repository's statements use it: rows with a status and
\* a start_time, and no constraint across rows.
WithStatus(sessions, status) == {i \in DOMAIN sessions : sessions[i].status = status}
InsertSession(sessions, now) == Append(sessions, [status |-> "active", start_time |-> now])
SetStatus(sessions, session_id, status) == [sessions EXCEPT ![session_id].status = status]

\* list(status=PAUSED, limit=1): ORDER BY start_time DESC LIMIT 1.
LatestPaused(sessions) ==
    {i \in WithStatus(sessions, "paused") :
        \A j \in WithStatus(sessions, "paused") :
            sessions[j].start_time <= sessions[i].start_time}

WorkFrame ==
    UNCHANGED <<points, cache, nextId, returned, clock, limiterVars, breakerVars,
                chunker, dryDone, guardVars, graphVars, sessionVars, writers, sync>>

WorkRefused(op, error) ==
    /\ lastOp' = [op |-> op, status |-> "error", error |-> error]
    /\ UNCHANGED work

WorkStart ==
    /\ Len(work) < MaxSessions
    /\ IF WithStatus(work, "active") # {}
       THEN WorkRefused("work_start", "A session is already active")
       ELSE /\ work' = InsertSession(work, clock)
            /\ lastOp' = [op |-> "work_start", status |-> "ok", session_id |-> Len(work) + 1]
    /\ WorkFrame

WorkPause ==
    /\ IF WithStatus(work, "active") = {}
       THEN WorkRefused("work_pause", "No active session to pause")
       ELSE \E session_id \in WithStatus(work, "active") :
               /\ work' = SetStatus(work, session_id, "paused")
               /\ lastOp' = [op |-> "work_pause", status |-> "ok", session_id |-> session_id]
    /\ WorkFrame

WorkResume ==
    /\ IF WithStatus(work, "paused") = {}
       THEN WorkRefused("work_resume", "No paused session to resume")
       ELSE \E session_id \in LatestPaused(work) :
               /\ work' = SetStatus(work, session_id, "active")
               /\ lastOp' = [op |-> "work_resume", status |-> "ok", session_id |-> session_id,
                             active_before |-> WithStatus(work, "active")]
    /\ WorkFrame

\* stop(session_id): session_id 0 stands for None, the active session.
WorkStop ==
    /\ \E session_id \in 0..Len(work) :
          LET found == IF session_id = 0 THEN WithStatus(work, "active") ELSE {session_id}
          IN  IF found = {}
              THEN WorkRefused("work_stop", "No active session found")
              ELSE \E id \in found :
                      IF work[id].status = "completed"
                      THEN WorkRefused("work_stop", "already completed")
                      ELSE /\ work' = SetStatus(work, id, "completed")
                           /\ lastOp' = [op |-> "work_stop", status |-> "ok",
                                         session_id |-> id]
    /\ WorkFrame

NextWork ==
    \/ WorkStart
    \/ WorkPause
    \/ WorkResume
    \/ WorkStop
    \/ Tick

SpecWork == Init /\ [][NextWork]_vars

(***************************************************************************)
(* WorkingMemory: the LRU cache of memories                                *)
(***************************************************************************)
CacheMaxSize == 2     \* WorkingMemory(max_size=100), scaled
MaxCacheOps == 6      \* puts and reads in one behaviour
CacheKeys == {"k1", "k2", "k3"}
CacheData == {"x", "y"}

KeysOf(entries) == {entries[i].key : i \in DOMAIN entries}
Without(entries, key) == SelectSeq(entries, LAMBDA e : e.key # key)
EntryOf(entries, key) == entries[CHOOSE i \in DOMAIN entries : entries[i].key = key]

\* A get that reads the entry where it is.
LRUGetInPlace(entries, key) == entries

\* LRUCache.get: move_to_end(key) when the key is there.
LRUGet(entries, key) ==
    IF key \in KeysOf(entries)
    THEN Append(Without(entries, key), EntryOf(entries, key))
    ELSE entries

\* popitem(last=False) while len(self) > max_size
RECURSIVE EvictOldest(_)
EvictOldest(entries) ==
    IF Len(entries) > CacheMaxSize THEN EvictOldest(Tail(entries)) ELSE entries

\* LRUCache.put: move_to_end when the key is there, assign, evict.
LRUPut(entries, key, value) ==
    EvictOldest(Append(Without(entries, key), [key |-> key, value |-> value]))

\* cache_memory(memory_id, data)
CacheMemoryCall ==
    /\ Running
    /\ lru.tick < MaxCacheOps
    /\ \E key \in CacheKeys, data \in CacheData :
          LET after == LRUPut(lru.entries, key, [data |-> data, access_count |-> 1])
          IN  /\ lru' = [entries |-> after, tick |-> lru.tick + 1,
                         used |-> [k \in KeysOf(after) |->
                                      IF k = key THEN lru.tick + 1 ELSE lru.used[k]]]
              /\ lastOp' = [op |-> "cache_memory", status |-> "ok", key |-> key,
                            before |-> lru,
                            evicted |-> KeysOf(lru.entries) \ KeysOf(after)]
    /\ UNCHANGED <<points, cache, nextId, returned, chunker, dryDone, clock,
                   guardVars, graphVars, backup, taskVars>>

\* get_cached_memory(memory_id)
GetCachedMemory ==
    /\ Running
    /\ lru.tick < MaxCacheOps
    /\ \E key \in CacheKeys :
          LET moved == LRUGet(lru.entries, key)
              hit == key \in KeysOf(lru.entries)
              counted == [i \in DOMAIN moved |->
                             IF moved[i].key = key
                             THEN [moved[i] EXCEPT !.value.access_count = @ + 1]
                             ELSE moved[i]]
          IN  /\ lru' = IF hit
                        THEN [entries |-> counted, tick |-> lru.tick + 1,
                              used |-> [lru.used EXCEPT ![key] = lru.tick + 1]]
                        ELSE lru
              /\ lastOp' = [op |-> "get_cached_memory",
                            status |-> IF hit THEN "hit" ELSE "miss", key |-> key,
                            tick |-> lru.tick]
    /\ UNCHANGED <<points, cache, nextId, returned, chunker, dryDone, clock,
                   guardVars, graphVars, backup, taskVars>>

\* invalidate_cache(memory_id)
InvalidateCache ==
    /\ Running
    /\ \E key \in CacheKeys :
          /\ lru' = [lru EXCEPT !.entries = Without(@, key),
                                !.used = [k \in DOMAIN @ \ {key} |-> @[k]]]
          /\ lastOp' = [op |-> "invalidate_cache",
                        status |-> IF key \in KeysOf(lru.entries) THEN "True" ELSE "False",
                        key |-> key, tick |-> lru.tick]
    /\ UNCHANGED <<points, cache, nextId, returned, chunker, dryDone, clock,
                   guardVars, graphVars, backup, taskVars>>

NextCache == CacheMemoryCall \/ GetCachedMemory \/ InvalidateCache
SpecCache == Init /\ [][NextCache]_vars

(***************************************************************************)
(* RateLimiter                                                             *)
(***************************************************************************)
MaxRequests == 2      \* config.max_requests of the model (at least 1)
WindowSeconds == 2    \* config.window_seconds of the model, in clock ticks
MaxTime == 5          \* time.monotonic() stops advancing here
MaxDelay == 1         \* ticks that can pass between two clock reads of one call
RetryFloor == 1       \* max(0.1, retry_after), in tenths of a tick

\* A cleanup that also drops the timestamp that is exactly one window old.
CleanupThroughCutoff(stamps, now) ==
    SelectSeq(stamps, LAMBDA t : ~(t <= now - WindowSeconds))

\* _cleanup_old_timestamps: popleft() while the oldest timestamp is before the
\* cutoff.
RECURSIVE CleanupOldTimestamps(_, _)
CleanupOldTimestamps(stamps, now) ==
    IF stamps # <<>> /\ Head(stamps) < now - WindowSeconds
    THEN CleanupOldTimestamps(Tail(stamps), now)
    ELSE stamps

\* The acquires that succeeded at a time in [from, from + window].
GrantsWithin(from) ==
    Cardinality({i \in 1..Len(granted) :
                    from <= granted[i] /\ granted[i] <= from + WindowSeconds})

\* acquire(): the lock is held from the cleanup to the append and nothing is
\* awaited in between; the clock is read for the cleanup and again, delay
\* later, for the retry time or the new timestamp.
Acquire ==
    /\ Running
    /\ \E delay \in 0..Min2(MaxDelay, MaxTime - clock) :
          LET kept == CleanupOldTimestamps(timestamps, clock)
              now == clock + delay
              recent == GrantsWithin(clock - WindowSeconds)
          IN  /\ clock' = now
              /\ IF Len(kept) >= MaxRequests
                 THEN /\ timestamps' = kept
                      /\ granted' = granted
                      /\ lastOp' = [op |-> "acquire", status |-> "RateLimitExceeded",
                                    at |-> clock, recent |-> recent, mutex |-> "rate",
                                    retry_after |->
                                        Max2(RetryFloor,
                                             10 * (kept[1] + WindowSeconds - now))]
                 ELSE /\ timestamps' = Append(kept, now)
                      /\ granted' = Append(granted, now)
                      /\ lastOp' = [op |-> "acquire", status |-> "ok", mutex |-> "rate",
                                    at |-> clock, recent |-> recent, retry_after |-> 0]
    /\ UNCHANGED <<managerVars, breakerVars>>

\* get_remaining(): cleans up without the lock; it awaits nothing, so it never
\* runs inside an acquire.
GetRemaining ==
    /\ Running
    /\ timestamps' = CleanupOldTimestamps(timestamps, clock)
    /\ lastOp' = [op |-> "get_remaining", status |-> "ok", mutex |-> "none",
                  remaining |-> Max2(0, MaxRequests - Len(timestamps'))]
    /\ UNCHANGED <<managerVars, clock, granted, breakerVars>>

TimePasses == TickUpTo(MaxTime)
NextRateLimiter == Acquire \/ GetRemaining \/ TimePasses
SpecRateLimiter == Init /\ [][NextRateLimiter]_vars

(***************************************************************************)
(* CircuitBreaker                                                          *)
(***************************************************************************)
FailureThreshold == 2   \* config.failure_threshold of the model
SuccessThreshold == 2   \* config.success_threshold of the model
RecoveryTimeout == 1    \* config.recovery_timeout of the model, in clock ticks
MaxFailureCount == 4    \* no failure is recorded beyond this _failure_count

\* A recovery check that keeps the success count of the last recovery.
CheckRecoveryKeepsCount(b, now) ==
    IF b.state = "open" /\ now - b.last_failure_time >= RecoveryTimeout
    THEN [b EXCEPT !.state = "half_open"]
    ELSE b

\* _check_recovery: open and the recovery timeout has elapsed since the last
\* failure -> half-open, with the success count cleared.
CheckRecovery(b, now) ==
    IF b.state = "open" /\ now - b.last_failure_time >= RecoveryTimeout
    THEN [b EXCEPT !.state = "half_open", !.success_count = 0]
    ELSE b

\* A success bookkeeping that leaves the failure count of a closed circuit.
OnSuccessKeepsCount(b) ==
    IF b.state = "half_open"
    THEN IF b.success_count + 1 >= SuccessThreshold
         THEN [b EXCEPT !.success_count = @ + 1, !.state = "closed",
                        !.failure_count = 0]
         ELSE [b EXCEPT !.success_count = @ + 1]
    ELSE b

\* call(), after func returned: the bookkeeping done under the lock.
OnSuccess(b) ==
    IF b.state = "half_open"
    THEN IF b.success_count + 1 >= SuccessThreshold
         THEN [b EXCEPT !.success_count = @ + 1, !.state = "closed",
                        !.failure_count = 0]
         ELSE [b EXCEPT !.success_count = @ + 1]
    ELSE IF b.state = "closed"
         THEN [b EXCEPT !.failure_count = 0]
         ELSE b

\* A failure bookkeeping that does not record the time of the failure.
OnFailureKeepsTime(b, now) ==
    LET counted == [b EXCEPT !.failure_count = @ + 1]
    IN  IF b.state = "half_open"
        THEN [counted EXCEPT !.state = "open"]
        ELSE IF b.state = "closed" /\ counted.failure_count >= FailureThreshold
             THEN [counted EXCEPT !.state = "open"]
             ELSE counted

\* call(), after func raised an Exception: the bookkeeping done under the lock.
OnFailure(b, now) ==
    LET counted == [b EXCEPT !.failure_count = @ + 1, !.last_failure_time = now]
    IN  IF b.state = "half_open"
        THEN [counted EXCEPT !.state = "open"]
        ELSE IF b.state = "closed" /\ counted.failure_count >= FailureThreshold
             THEN [counted EXCEPT !.state = "open"]
             ELSE counted

\* CircuitBreaker.name of the store's breaker.
ServiceName == "qdrant"

\* The step counter of the breaker's operations, modulo 2: it tells an
\* operation that repeats the last one from no operation at all.
Turn == IF "turn" \in DOMAIN lastOp THEN lastOp.turn ELSE 0
NextTurn == 1 - Turn

\* A retry_after that is not raised to 0.1.
RetryAfterUnfloored(b, now) == 10 * (RecoveryTimeout - (now - b.last_failure_time))

\* call(): the retry_after of CircuitOpenError, in tenths of a tick.
RetryAfter(b, now) ==
    Max2(RetryFloor, 10 * (RecoveryTimeout - (now - b.last_failure_time)))

\* The history after a step of the breaker from b to next at time now.
Recorded(b, next, now, succeeded) ==
    [opened_at |-> IF next.state = "open" /\ b.state # "open"
                   THEN now ELSE history.opened_at,
     opened_from |-> IF next.state = "open" /\ b.state # "open"
                     THEN b.state ELSE history.opened_from,
     successes |-> IF next.state # "half_open" THEN 0
                   ELSE IF b.state # "half_open" THEN 0
                   ELSE IF succeeded THEN history.successes + 1
                   ELSE history.successes,
     admitted_in |-> history.admitted_in]

\* The history once caller c is let through in the given state of the
\* circuit, and once its call is over.
WithAdmission(h, c, let_through, state) ==
    IF let_through THEN [h EXCEPT !.admitted_in[c] = state] ELSE h
CallOver(h, c) == [h EXCEPT !.admitted_in[c] = "none"]

\* An admission that lets calls through a closed circuit only.
RejectsUnlessClosed(b) == b.state # "closed"

\* call(): the circuit rejects the call after the recovery check.
Rejects(b) == b.state = "open"

\* call(), first locked section: recovery check, then CircuitOpenError if the
\* circuit is open, else func is started.  The clock is read for the recovery
\* check and again, delay later, for retry_after.
CbAdmit(c) ==
    /\ Running
    /\ calls[c] = "idle"
    /\ breaker' = CheckRecovery(breaker, clock)
    /\ history' = WithAdmission(Recorded(breaker, breaker', clock, FALSE), c,
                                ~Rejects(breaker'), breaker'.state)
    /\ IF Rejects(breaker')
       THEN \E delay \in 0..Min2(MaxDelay, MaxTime - clock) :
               /\ clock' = clock + delay
               /\ calls' = calls
               /\ lastOp' = [op |-> "call", status |-> "CircuitOpenError",
                             caller |-> c, was |-> breaker.state,
                             turn |-> NextTurn, mutex |-> "circuit",
                             service |-> ServiceName,
                             retry_after |-> RetryAfter(breaker', clock')]
       ELSE /\ clock' = clock
            /\ calls' = [calls EXCEPT ![c] = "calling"]
            /\ lastOp' = [op |-> "call", status |-> "admitted",
                          caller |-> c, was |-> breaker.state,
                          turn |-> NextTurn, mutex |-> "circuit",
                          service |-> ServiceName, retry_after |-> 0]
    /\ UNCHANGED <<managerVars, limiterVars, consecutive>>

\* func returns.
CbSucceed(c) ==
    /\ Running
    /\ calls[c] = "calling"
    /\ breaker' = OnSuccess(breaker)
    /\ history' = CallOver(Recorded(breaker, breaker', clock, TRUE), c)
    /\ calls' = [calls EXCEPT ![c] = "idle"]
    /\ consecutive' = 0
    /\ lastOp' = [op |-> "call", status |-> "ok", caller |-> c,
                  was |-> breaker.state, turn |-> NextTurn, mutex |-> "circuit"]
    /\ UNCHANGED <<managerVars, clock, limiterVars>>

\* func raises an Exception, which call() re-raises.
CbFail(c) ==
    /\ Running
    /\ calls[c] = "calling"
    /\ breaker.failure_count < MaxFailureCount
    /\ breaker' = OnFailure(breaker, clock)
    /\ history' = CallOver(Recorded(breaker, breaker', clock, FALSE), c)
    /\ calls' = [calls EXCEPT ![c] = "idle"]
    /\ consecutive' = consecutive + 1
    /\ lastOp' = [op |-> "call", status |-> "failed", caller |-> c,
                  was |-> breaker.state, turn |-> NextTurn, mutex |-> "circuit"]
    /\ UNCHANGED <<managerVars, clock, limiterVars>>

\* The task is cancelled while func runs: CancelledError is not an Exception,
\* so neither bookkeeping runs.
CbCancel(c) ==
    /\ Running
    /\ calls[c] = "calling"
    /\ calls' = [calls EXCEPT ![c] = "idle"]
    /\ lastOp' = [op |-> "call", status |-> "cancelled", caller |-> c,
                  was |-> breaker.state, turn |-> NextTurn, mutex |-> "none"]
    /\ history' = CallOver(history, c)
    /\ UNCHANGED <<managerVars, clock, limiterVars, breaker, consecutive>>

\* reset(): back to closed with both counts cleared, without taking the lock;
\* the count of consecutive failures starts again.
CbReset ==
    /\ Running
    /\ breaker' = [breaker EXCEPT !.state = "closed", !.failure_count = 0,
                                  !.success_count = 0]
    /\ history' = Recorded(breaker, breaker', clock, FALSE)
    /\ consecutive' = 0
    /\ lastOp' = [op |-> "reset", status |-> "ok", caller |-> "",
                  was |-> breaker.state, turn |-> NextTurn, mutex |-> "none"]
    /\ UNCHANGED <<managerVars, clock, limiterVars, calls>>

CbAdmitAny == \E c \in Callers : CbAdmit(c)
CbSucceedAny == \E c \in Callers : CbSucceed(c)
CbFailAny == \E c \in Callers : CbFail(c)
CbCancelAny == \E c \in Callers : CbCancel(c)
NextBreaker ==
    CbAdmitAny \/ CbSucceedAny \/ CbFailAny \/ CbCancelAny \/ CbReset \/ TimePasses
SpecBreaker == Init /\ [][NextBreaker]_vars

(***************************************************************************)
(* ServiceRateLimiter                                                      *)
(***************************************************************************)
\* A service call that runs the breaker's recovery check before the rate
\* limit is looked at.
ServiceCallBreakerFirst(limited, b, now) == CheckRecovery(b, now)

\* ServiceRateLimiter.call: rate_limiter.acquire() raises before
\* circuit_breaker.call is reached.
ServiceCallBreaker(limited, b, now) ==
    IF limited THEN b ELSE CheckRecovery(b, now)

\* ServiceRateLimiter.call up to the start of func: acquire(), then the
\* admission of circuit_breaker.call.  Neither lock is contended and nothing
\* is awaited in between, so no other task runs inside.
SvcCall(c) ==
    /\ Running
    /\ calls[c] = "idle"
    /\ LET kept == CleanupOldTimestamps(timestamps, clock)
           limited == Len(kept) >= MaxRequests
       IN  /\ breaker' = ServiceCallBreaker(limited, breaker, clock)
           /\ history' = WithAdmission(Recorded(breaker, breaker', clock, FALSE), c,
                                       ~limited /\ ~Rejects(breaker'), breaker'.state)
           /\ timestamps' = IF limited THEN kept ELSE Append(kept, clock)
           /\ granted' = IF limited THEN granted ELSE Append(granted, clock)
           /\ calls' = IF ~limited /\ ~Rejects(breaker')
                       THEN [calls EXCEPT ![c] = "calling"]
                       ELSE calls
           /\ lastOp' = [op |-> "service_call",
                         status |-> IF limited THEN "RateLimitExceeded"
                                    ELSE IF Rejects(breaker') THEN "CircuitOpenError"
                                    ELSE "admitted",
                         caller |-> c, was |-> breaker.state, turn |-> NextTurn,
                         mutex |-> IF limited THEN "rate" ELSE "circuit",
                         service |-> ServiceName,
                         retry_after |->
                             IF limited
                             THEN Max2(RetryFloor,
                                       10 * (kept[1] + WindowSeconds - clock))
                             ELSE IF Rejects(breaker')
                                  THEN RetryAfter(breaker', clock)
                                  ELSE 0]
    /\ UNCHANGED <<managerVars, clock, consecutive>>

SvcCallAny == \E c \in Callers : SvcCall(c)
NextService == SvcCallAny \/ CbSucceedAny \/ CbFailAny \/ TimePasses
SpecService == Init /\ [][NextService]_vars

(***************************************************************************)
(* GraphManager: relations                                                 *)
(***************************************************************************)
MaxBatch == 2     \* items in one add_relations_bulk call

\* RelationType, RelationCreator.
RelationTypeValues ==
    {"causes", "fixes", "supports", "opposes", "follows", "supersedes",
     "derives", "part_of", "related"}
Creators == {"user", "auto"}

\* The texts of the errors, character by character.
UniqueViolationText ==
    <<"d", "u", "p", "l", "i", "c", "a", "t", "e", " ", "k", "e", "y", " ",
      "v", "a", "l", "u", "e", " ", "v", "i", "o", "l", "a", "t", "e", "s",
      " ", "u", "n", "i", "q", "u", "e", " ", "c", "o", "n", "s", "t", "r",
      "a", "i", "n", "t">>
FetchrowFailed ==
    <<"F", "e", "t", "c", "h", "r", "o", "w", " ", "f", "a", "i", "l", "e",
      "d">>
FailedToCreate ==
    <<"F", "a", "i", "l", "e", "d", " ", "t", "o", " ", "c", "r", "e", "a",
      "t", "e", " ", "r", "e", "l", "a", "t", "i", "o", "n", ":", " ">>
SelfReferential ==
    <<"C", "a", "n", "n", "o", "t", " ", "c", "r", "e", "a", "t", "e", " ",
      "s", "e", "l", "f", "-", "r", "e", "f", "e", "r", "e", "n", "t", "i",
      "a", "l", " ", "r", "e", "l", "a", "t", "i", "o", "n">>
NotAValidType ==
    <<"'", "b", "o", "g", "u", "s", "'", " ", "i", "s", " ", "n", "o", "t",
      " ", "a", " ", "v", "a", "l", "i", "d", " ", "R", "e", "l", "a", "t",
      "i", "o", "n", "T", "y", "p", "e">>
DuplicateWord ==
    <<"d", "u", "p", "l", "i", "c", "a", "t", "e">>
UniqueWord ==
    <<"u", "n", "i", "q", "u", "e">>
AlreadyExistsWords ==
    <<"a", "l", "r", "e", "a", "d", "y", " ", "e", "x", "i", "s", "t", "s">>

\* str.lower(), on the capitals the texts hold.
LowerChar(c) ==
    CASE c = "C" -> "c" [] c = "F" -> "f" [] c = "R" -> "r" [] c = "T" -> "t"
      [] OTHER -> c
Lower(text) == [i \in 1..Len(text) |-> LowerChar(text[i])]

\* DatabaseError.__str__: "{message}: {cause}".
DatabaseErrorStr(message, cause) == message \o <<":", " ">> \o cause

Triple(r) == <<r.source_id, r.target_id, r.relation_type>>
StoredTriples(rows) == {Triple(r) : r \in BagToSet(rows)}

\* unique(source_id, target_id, type) of table memory_relations.
ViolatesUnique(rows, row) == Triple(row) \in StoredTriples(rows)

\* MemoryRelationRepository.create: the INSERT, which Database.fetchrow turns
\* into QueryError("Fetchrow failed", cause) when the database refuses it.
RepoCreate(rows, row) ==
    IF ViolatesUnique(rows, row)
    THEN [rows |-> rows, raised |-> TRUE,
          message |-> DatabaseErrorStr(FetchrowFailed, UniqueViolationText)]
    ELSE [rows |-> rows (+) SetToBag({row}), raised |-> FALSE, message |-> <<>>]

\* uuid.UUID(text): the value of a spelling.  Braces, hyphens, a urn:uuid:
\* prefix and the case of the digits are not part of the value, so "{A}" is
\* the memory A.
BracedA == "{A}"
ParseUuid(text) == IF text = BracedA THEN "A" ELSE text

\* add_relation: InvalidRelationError when the two id strings are equal; the
\* row is made of UUID(source_id) and UUID(target_id); any failure of the
\* insert becomes GraphManagerError("Failed to create relation: {e}").
AddRelationResult(rows, source_id, target_id, relation_type, created_by) ==
    IF source_id = target_id
    THEN [rows |-> rows, raised |-> TRUE, message |-> SelfReferential]
    ELSE LET made == RepoCreate(rows, [source_id |-> ParseUuid(source_id),
                                       target_id |-> ParseUuid(target_id),
                                       relation_type |-> relation_type,
                                       created_by |-> created_by])
         IN  IF made.raised
             THEN [made EXCEPT !.message = FailedToCreate \o made.message]
             ELSE made

\* A classification that looks for "already exists" in the error text.
MentionsAlreadyExists(error_str) == Contains(error_str, AlreadyExistsWords)

\* add_relations_bulk: "duplicate" in error_str or "unique" in error_str.
IsDuplicateMessage(error_str) ==
    Contains(error_str, DuplicateWord) \/ Contains(error_str, UniqueWord)

\* The texts of the exceptions an item can raise, and those of them that
\* add_relations_bulk classifies as duplicates (the classification is the
\* same each time, so it is computed once per text).
ErrorTexts ==
    {SelfReferential, NotAValidType,
     FailedToCreate \o DatabaseErrorStr(FetchrowFailed, UniqueViolationText)}
DuplicateTexts == {text \in ErrorTexts : IsDuplicateMessage(Lower(text))}

\* add_relations_bulk, one item: RelationType(...) raises ValueError for an
\* unknown type before add_relation is called.
BulkItem(acc, rel, created_by) ==
    LET outcome ==
            IF rel.relation_type \notin RelationTypeValues
            THEN [rows |-> acc.rows, raised |-> TRUE, message |-> NotAValidType]
            ELSE AddRelationResult(acc.rows, rel.source_id, rel.target_id,
                                   rel.relation_type, created_by)
    IN  IF ~outcome.raised
        THEN [acc EXCEPT !.rows = outcome.rows, !.created = @ + 1]
        ELSE IF outcome.message \in DuplicateTexts
             THEN [acc EXCEPT !.duplicates = @ + 1]
             ELSE [acc EXCEPT !.errors = @ + 1]

RECURSIVE BulkLoop(_, _, _)
BulkLoop(acc, rels, created_by) ==
    IF rels = <<>> THEN acc
    ELSE BulkLoop(BulkItem(acc, Head(rels), created_by), Tail(rels), created_by)

\* The items a client sends: three triples over two memories, a self-loop and
\* an unknown relation type.
BulkItems ==
    {[source_id |-> "A", target_id |-> "B", relation_type |-> "fixes"],
     [source_id |-> "A", target_id |-> "B", relation_type |-> "related"],
     [source_id |-> "B", target_id |-> "A", relation_type |-> "fixes"],
     [source_id |-> "A", target_id |-> "A", relation_type |-> "fixes"],
     [source_id |-> "A", target_id |-> "B", relation_type |-> "bogus"]}
Batches == UNION {[1..n -> BulkItems] : n \in 1..MaxBatch}

AddRelationOf(items, creators) ==
    /\ Running
    /\ \E rel \in items, created_by \in creators :
          LET result == AddRelationResult(relations, rel.source_id, rel.target_id,
                                          rel.relation_type, created_by)
          IN  /\ relations' = result.rows
              /\ lastOp' = [op |-> "add_relation",
                            status |-> IF result.raised THEN "error" ELSE "ok",
                            relation |-> rel, message |-> result.message]
    /\ UNCHANGED <<nonGraphVars, rejected>>

AddRelation ==
    AddRelationOf({r \in BulkItems : r.relation_type \in RelationTypeValues}, Creators)

AddRelationsBulk ==
    /\ Running
    /\ \E batch \in Batches, created_by \in Creators :
          LET result == BulkLoop([rows |-> relations, created |-> 0,
                                  duplicates |-> 0, errors |-> 0],
                                 batch, created_by)
          IN  /\ relations' = result.rows
              /\ lastOp' = [op |-> "add_relations_bulk", status |-> "ok",
                            batch |-> batch, before |-> relations,
                            created |-> result.created,
                            duplicates |-> result.duplicates,
                            errors |-> result.errors]
    /\ UNCHANGED <<nonGraphVars, rejected>>

NextRelations == AddRelation \/ AddRelationsBulk
SpecRelations == Init /\ [][NextRelations]_vars

(***************************************************************************)
(* GraphManager: global discovery                                          *)
(***************************************************************************)
SuggestLimit == 5     \* suggest_relations(limit=5) of the discovery

\* The memories in the order scroll returns them, and for each the hits of
\* suggest_relations' vector search with the inferred type and the confidence
\* (in hundredths), best first: the memory itself, then the others.  They
\* depend on the payloads alone.
ScanOrder == <<"A", "B", "C">>
SearchHits ==
    [memory_id \in {"A", "B", "C"} |->
        CASE memory_id = "A" ->
                <<[target_id |-> "A", suggested_type |-> "related", confidence |-> 100],
                  [target_id |-> "B", suggested_type |-> "fixes", confidence |-> 95],
                  [target_id |-> "C", suggested_type |-> "related", confidence |-> 80]>>
          [] memory_id = "B" ->
                <<[target_id |-> "B", suggested_type |-> "related", confidence |-> 100],
                  [target_id |-> "A", suggested_type |-> "related", confidence |-> 95],
                  [target_id |-> "C", suggested_type |-> "related", confidence |-> 85]>>
          [] OTHER ->
                <<[target_id |-> "C", suggested_type |-> "related", confidence |-> 100],
                  [target_id |-> "B", suggested_type |-> "related", confidence |-> 85],
                  [target_id |-> "A", suggested_type |-> "related", confidence |-> 80]>>]

\* The inputs of a discovery run.
DiscoverLimits == {1, 2}
AutoAcceptThresholds == {90, 100}

\* suggest_relations: the hits whose id is not already related to the memory,
\* sorted by confidence, the first limit of them.
ExistingIds(rows, memory_id) ==
    {memory_id} \cup
    UNION {{r.source_id, r.target_id} :
              r \in {x \in BagToSet(rows) :
                        x.source_id = memory_id \/ x.target_id = memory_id}}
SuggestRelations(rows, memory_id) ==
    LET open == SelectSeq(SearchHits[memory_id],
                          LAMBDA hit : hit.target_id \notin ExistingIds(rows, memory_id))
    IN  SubSeq(open, 1, Min2(SuggestLimit, Len(open)))

\* list.sort(key=confidence, reverse=True): stable, best first.
RECURSIVE SortByConfidence(_)
SortByConfidence(items) ==
    IF items = <<>> THEN <<>>
    ELSE LET best == SetMax({items[i].confidence : i \in DOMAIN items})
             first == SetMin({i \in DOMAIN items : items[i].confidence = best})
         IN  <<items[first]>> \o
             SortByConfidence(SubSeq(items, 1, first - 1) \o
                              SubSeq(items, first + 1, Len(items)))

\* discover_relations_global, one suggestion of one memory.
DiscoverSuggestion(acc, memory_id, suggestion, rejected_pairs, auto_accept_threshold) ==
    LET reject_key == <<memory_id, suggestion.target_id, suggestion.suggested_type>>
        pair == {memory_id, suggestion.target_id}
        seen == [acc EXCEPT !.seen_pairs = @ \cup {pair}]
        offered == [seen EXCEPT !.suggestions =
                        Append(@, [source_id |-> memory_id,
                                   target_id |-> suggestion.target_id,
                                   relation_type |-> suggestion.suggested_type,
                                   confidence |-> suggestion.confidence])]
        added == AddRelationResult(acc.rows, memory_id, suggestion.target_id,
                                   suggestion.suggested_type, "auto")
    IN  IF reject_key \in rejected_pairs THEN acc
        ELSE IF pair \in acc.seen_pairs THEN acc
        ELSE IF suggestion.confidence >= auto_accept_threshold /\ ~added.raised
             THEN [seen EXCEPT !.rows = added.rows, !.auto_accepted = @ + 1,
                               !.accepted = @ \cup {reject_key}]
             ELSE offered

RECURSIVE DiscoverSuggestions(_, _, _, _, _)
DiscoverSuggestions(acc, memory_id, todo, rejected_pairs, auto_accept_threshold) ==
    IF todo = <<>> THEN acc
    ELSE DiscoverSuggestions(
             DiscoverSuggestion(acc, memory_id, Head(todo), rejected_pairs,
                                auto_accept_threshold),
             memory_id, Tail(todo), rejected_pairs, auto_accept_threshold)

\* discover_relations_global, the loop over the memories to scan.
RECURSIVE DiscoverLoop(_, _, _, _, _)
DiscoverLoop(acc, to_scan, limit, rejected_pairs, auto_accept_threshold) ==
    IF to_scan = <<>> \/ Len(acc.suggestions) >= limit * 2 THEN acc
    ELSE DiscoverLoop(
             DiscoverSuggestions([acc EXCEPT !.scanned_count = @ + 1], Head(to_scan),
                                 SuggestRelations(acc.rows, Head(to_scan)),
                                 rejected_pairs, auto_accept_threshold),
             Tail(to_scan), limit, rejected_pairs, auto_accept_threshold)

\* discover_relations (route): the rejected suggestions are read with
\* get_all(); when that raises, `except Exception: pass` leaves the set empty.
LoadRejected(table, answered) == IF answered THEN table ELSE {}

\* POST /discover: the route and discover_relations_global.
Discover ==
    /\ Running
    /\ \E limit \in DiscoverLimits, auto_accept_threshold \in AutoAcceptThresholds,
          skip_with_relations \in BOOLEAN, answered \in BOOLEAN :
          LET rejected_pairs == LoadRejected(rejected, answered)
              memories_with_relations ==
                  IF skip_with_relations
                  THEN UNION {{r.source_id, r.target_id} : r \in BagToSet(relations)}
                  ELSE {}
              memories_to_scan ==
                  SelectSeq(ScanOrder, LAMBDA mid : mid \notin memories_with_relations)
              done == DiscoverLoop([suggestions |-> <<>>, seen_pairs |-> {},
                                    auto_accepted |-> 0, accepted |-> {},
                                    rows |-> relations, scanned_count |-> 0],
                                   memories_to_scan, limit, rejected_pairs,
                                   auto_accept_threshold)
              sorted == SortByConfidence(done.suggestions)
          IN  /\ relations' = done.rows
              /\ lastOp' = [op |-> "discover", status |-> "ok",
                            suggestions |-> SubSeq(sorted, 1, Min2(limit, Len(sorted))),
                            accepted |-> done.accepted,
                            auto_accepted |-> done.auto_accepted,
                            scanned_count |-> done.scanned_count,
                            total_without_relations |-> Len(memories_to_scan),
                            answered |-> answered]
    /\ UNCHANGED <<nonGraphVars, rejected>>

\* POST /suggestions/reject: INSERT ... ON CONFLICT DO NOTHING.
RejectInputs ==
    {<<"A", "B", "fixes">>, <<"B", "A", "related">>, <<"A", "C", "related">>}
RejectSuggestion ==
    /\ Running
    /\ \E key \in RejectInputs :
          /\ rejected' = rejected \cup {key}
          /\ lastOp' = [op |-> "reject", status |-> "rejected", key |-> key]
    /\ UNCHANGED <<nonGraphVars, relations>>

NextDiscover == Discover \/ RejectSuggestion
SpecDiscover == Init /\ [][NextDiscover]_vars

(***************************************************************************)
(* GraphManager: every way to a stored relation                            *)
(***************************************************************************)
\* add_relation with the ids as the callers spell them.
SpelledItems ==
    {[source_id |-> "A", target_id |-> "A", relation_type |-> "fixes"],
     [source_id |-> "A", target_id |-> BracedA, relation_type |-> "fixes"],
     [source_id |-> BracedA, target_id |-> "B", relation_type |-> "fixes"]}
LinkSpelled == AddRelationOf(SpelledItems, {"user"})

NextGraph == LinkSpelled \/ AddRelationsBulk \/ Discover
SpecGraph == Init /\ [][NextGraph]_vars

(***************************************************************************)
(* GraphManager: neighbors                                                 *)
(***************************************************************************)
MinDepth == 1         \* depth = min(max(depth, 1), 5)
MaxDepth == 2         \* 5 in the code; scaled to a graph of four memories
ImplicitLimit == 2    \* limit=10 of _get_project_neighbors, scaled

Nodes == <<"A", "B", "C", "D">>
NodeSet == {Nodes[i] : i \in DOMAIN Nodes}

\* The relations of the neighbor model: a ring A - B - C - D - A.
RingItems ==
    {[source_id |-> "A", target_id |-> "B", relation_type |-> "causes"],
     [source_id |-> "B", target_id |-> "C", relation_type |-> "causes"],
     [source_id |-> "C", target_id |-> "D", relation_type |-> "follows"],
     [source_id |-> "D", target_id |-> "A", relation_type |-> "causes"],
     [source_id |-> "B", target_id |-> "B", relation_type |-> "causes"]}

\* The inputs of get_neighbors: the depth asked for, the type filter, and the
\* project field of the memories' payloads ("" is no project).
RequestedDepths == 0..(MaxDepth + 1)
NoFilter == {}
TypeFilters == {NoFilter, {"causes"}}
ProjectMaps ==
    {[n \in NodeSet |-> ""],
     [n \in NodeSet |-> "p"],
     [n \in NodeSet |-> IF n \in {"A", "C"} THEN "p" ELSE "q"]}

\* SQL function get_neighbors(memory_id, depth, types): the recursive query.
\* The base case is the center at depth 0; the recursive case joins the
\* relations in either direction, appends to the path, increments the depth,
\* is bounded by max_depth and avoids cycles with NOT id = ANY(path).
OnPath(path, id) == \E i \in DOMAIN path : path[i] = id
OtherEnd(r, id) == IF r.source_id = id THEN r.target_id ELSE r.source_id
RecursiveJoin(rows, entry, types) ==
    {[memory_id |-> OtherEnd(r, entry.memory_id),
      depth |-> entry.depth + 1,
      path |-> Append(entry.path, OtherEnd(r, entry.memory_id)),
      relation |-> r.relation_type] :
        r \in {x \in BagToSet(rows) :
                  /\ x.source_id = entry.memory_id \/ x.target_id = entry.memory_id
                  /\ ~OnPath(entry.path, OtherEnd(x, entry.memory_id))
                  /\ types = NoFilter \/ x.relation_type \in types}}

RECURSIVE Traverse(_, _, _, _)
Traverse(rows, frontier, max_depth, types) ==
    LET next == UNION {RecursiveJoin(rows, e, types) :
                          e \in {x \in frontier : x.depth < max_depth}}
    IN  IF next = {} THEN {} ELSE next \cup Traverse(rows, next, max_depth, types)

SqlGetNeighbors(rows, memory_id, depth, types) ==
    Traverse(rows, {[memory_id |-> memory_id, depth |-> 0,
                     path |-> <<memory_id>>, relation |-> "center"]},
             depth, types)

\* depth = min(max(depth, 1), 5)
ClampDepth(depth) == Min2(Max2(depth, MinDepth), MaxDepth)

\* _get_project_neighbors that excludes no id.
ProjectNeighborsOfAll(projects, memory_id, exclude_ids, limit) ==
    LET project == projects[memory_id]
        found == SelectSeq(Nodes, LAMBDA pid : projects[pid] = project)
        page == SubSeq(found, 1, Min2(limit, Len(found)))
    IN  IF project = "" THEN {}
        ELSE {[memory_id |-> page[i], depth |-> 1, path |-> <<memory_id, page[i]>>,
               relation |-> "same_project"] : i \in DOMAIN page}

\* _get_project_neighbors: the memories of the source's project, one scroll
\* page of them, without the excluded ids, each at depth 1.
ProjectNeighbors(projects, memory_id, exclude_ids, limit) ==
    LET project == projects[memory_id]
        found == SelectSeq(Nodes, LAMBDA pid : projects[pid] = project)
        page == SubSeq(found, 1, Min2(limit, Len(found)))
        kept == SelectSeq(page, LAMBDA pid : pid \notin exclude_ids)
    IN  IF project = "" THEN {}
        ELSE {[memory_id |-> kept[i], depth |-> 1, path |-> <<memory_id, kept[i]>>,
               relation |-> "same_project"] : i \in DOMAIN kept}

\* GraphManager.get_neighbors
GetNeighbors ==
    /\ Running
    /\ \E memory_id \in NodeSet, depth \in RequestedDepths, types \in TypeFilters,
          projects \in ProjectMaps :
          LET db_neighbors == SqlGetNeighbors(relations, memory_id, ClampDepth(depth), types)
              project_neighbors ==
                  ProjectNeighbors(projects, memory_id,
                                   {n.memory_id : n \in db_neighbors} \cup {memory_id},
                                   ImplicitLimit)
          IN  lastOp' = [op |-> "get_neighbors", status |-> "ok",
                         memory_id |-> memory_id, depth |-> depth,
                         neighbors |-> db_neighbors \cup project_neighbors]
    /\ UNCHANGED <<nonGraphVars, graphVars>>

LinkRing == AddRelationOf(RingItems, {"user"})
NextNeighbors == LinkRing \/ GetNeighbors
SpecNeighbors == Init /\ [][NextNeighbors]_vars

(***************************************************************************)
(* QdrantStore in server mode                                              *)
(***************************************************************************)
\* The data operations of the store, and those that go through
\* self._circuit_breaker.call.
StoreOps ==
    {"upsert", "upsert_batch", "search", "get", "scroll", "delete", "update_payload"}
WrappedOps == {"upsert", "upsert_batch", "search"}

\* One data operation of a store connected to a server, with the circuit
\* breaker enabled, up to the request to the server: a wrapped operation
\* passes the breaker's admission, the others await the client directly.  The
\* store holds no rate limiter.
StoreCall(c, name) ==
    /\ Running
    /\ calls[c] = "idle"
    /\ IF name \in WrappedOps
       THEN /\ breaker' = CheckRecovery(breaker, clock)
            /\ history' = WithAdmission(Recorded(breaker, breaker', clock, FALSE), c,
                                        ~Rejects(breaker'), breaker'.state)
            /\ calls' = IF Rejects(breaker') THEN calls
                        ELSE [calls EXCEPT ![c] = "calling"]
            /\ lastOp' = [op |-> "request", name |-> name,
                          status |-> IF Rejects(breaker') THEN "CircuitOpenError"
                                     ELSE "sent",
                          caller |-> c, was |-> breaker.state, turn |-> NextTurn,
                          mutex |-> "circuit"]
       ELSE /\ UNCHANGED <<breaker, history, calls>>
            /\ lastOp' = [op |-> "request", name |-> name, status |-> "sent",
                          caller |-> c, was |-> breaker.state, turn |-> NextTurn,
                          mutex |-> "none"]
    /\ UNCHANGED <<managerVars, clock, limiterVars, consecutive>>

StoreCallAny == \E c \in Callers, name \in StoreOps : StoreCall(c, name)
NextStore == StoreCallAny \/ CbSucceedAny \/ CbFailAny \/ TimePasses
SpecStore == Init /\ [][NextStore]_vars

\* Callers keep calling, and a call that is in flight is not cancelled every
\* time: func returns or raises in the end.
BreakerTraffic == WF_vars(CbAdmitAny) /\ SF_vars(CbSucceedAny \/ CbFailAny)
SpecBreakerTraffic == SpecBreaker /\ BreakerTraffic

(***************************************************************************)
(* Properties of store, update and delete                                  *)
(***************************************************************************)
\* The chunk points of a logical memory, and the two shapes a memory may have.
ChunkPointsOf(memory_id) == WithParent(points, memory_id) \ {DirectId(memory_id)}
ShapeDirect(memory_id) ==
    /\ DirectId(memory_id) \in DOMAIN points
    /\ ~points[DirectId(memory_id)].is_chunk
    /\ ChunkPointsOf(memory_id) = {}
ShapeChunked(memory_id) ==
    /\ ChunkPointsOf(memory_id) # {}
    /\ \A pid \in ChunkPointsOf(memory_id) : points[pid].is_chunk
    /\ DirectId(memory_id) \notin DOMAIN points

\* C1: after any sequence of store and update operations, every memory that a
\* successful store or update returned has exactly one of the two shapes: one
\* direct point and no chunk points, or at least one chunk point and no
\* direct point; never both and never an empty point set.
C1_ChunkInvariant ==
    Running => \A memory_id \in returned : ShapeDirect(memory_id) \/ ShapeChunked(memory_id)

\* C2: after delete(memory_id) completes the store holds no point with
\* id = memory_id and no point with parent_id = memory_id, whatever the number
\* of chunks the memory had.
C2_DeleteCascade ==
    lastOp.op = "delete" =>
        /\ DirectId(lastOp.id) \notin DOMAIN points
        /\ WithParent(points, lastOp.id) = {}

\* C3: after update(id, content=X) with |X| > chunk_size completes, get(id)
\* returns a memory under the same id whose content is X and whose created_at
\* is the value from before the update, and no point of the old chunk set
\* remains: every point of the memory carries X.
C3_UpdateRechunks ==
    (/\ lastOp.op = "update" /\ lastOp.status = "ok"
     /\ lastOp.kind = "content" /\ Len(lastOp.content) > ChunkSize) =>
        /\ lastOp.result # NoMemory
        /\ lastOp.result.id = lastOp.id
        /\ lastOp.result.content = lastOp.content
        /\ lastOp.result.created_at = lastOp.created_before
        /\ Get(points, cache, lastOp.id) = lastOp.result
        /\ \A pid \in WithParent(points, lastOp.id) :
              points[pid].full_content = lastOp.content

\* C25: after delete(id) of an existing memory completes, get(id) returns
\* None, also when the memory was in the working-memory cache before.
C25_DeletedIsGone ==
    (lastOp.op = "delete" /\ lastOp.id \in returned) =>
        Get(points, cache, lastOp.id) = NoMemory

(***************************************************************************)
(* Properties of boost_on_access                                           *)
(***************************************************************************)
\* C5: after boost_on_access on any one chunk point of a multi-chunk memory,
\* every chunk point of that memory has the same importance, the same
\* access_count and the same accessed_at.
C5_BoostPropagates ==
    (/\ lastOp.op = "boost" /\ lastOp.found
     /\ points[lastOp.id].is_chunk
     /\ Cardinality(WithParent(points, points[lastOp.id].parent_id)) > 1) =>
        \A pid \in WithParent(points, points[lastOp.id].parent_id) :
            /\ points[pid].importance = points[lastOp.id].importance
            /\ points[pid].access_count = points[lastOp.id].access_count
            /\ points[pid].accessed_at = points[lastOp.id].accessed_at

\* C29: boost_on_access_batch completes as the single calls do and leaves a
\* store that boost_on_access, called once per item, can leave.
C29_BatchMatchesSingles ==
    lastOp.op = "boost_batch" =>
        /\ lastOp.status = "ok"
        /\ points \in BoostSingles(lastOp.before, lastOp.items, lastOp.at)

\* C30: when update or delete is applied to a memory whose point set holds both
\* the non-chunk point at id = memory_id and chunk points with parent_id =
\* memory_id, the operation surfaces a ChunkInvariantViolation error instead of
\* normalising or deleting the mixed point set.
C30_MixedSetSurfaces ==
    (lastOp.op \in {"update", "delete"} /\ lastOp.mixed) =>
        lastOp.status = "ChunkInvariantViolation"

\* C31: consolidate, apply_forgetting, decay_importance and global relation
\* discovery continue past a failure on a single item: the call still returns
\* its result, the failure is counted in it, and every remaining item is
\* processed.
C31_FailureDoesNotAbort ==
    (lastOp.op \in {"apply_forgetting", "decay_importance"} /\ "failing" \in DOMAIN lastOp) =>
        /\ lastOp.status = "ok"
        /\ lastOp.unprocessed = {}

\* C32: when update(id, content=X) fails after the old points were deleted,
\* the memory is not lost and nothing is leaked: the store still holds a
\* complete point set for id and no point under the id the call created.
C32_FailedUpdateKeepsMemory ==
    (lastOp.op = "update" /\ "stage" \in DOMAIN lastOp) =>
        /\ ShapeDirect(lastOp.id) \/ ShapeChunked(lastOp.id)
        /\ WithParent(points, lastOp.new_id) = {}

\* C33: when two update(id, content=...) calls on one memory ran concurrently
\* and both completed, the memory has one of the two shapes of C1 and its
\* points encode exactly one of the two submitted contents: no chunk points
\* of both writers, and chunk_count equal to the number of chunk points.
BothUpdated(memory_id) ==
    \A t \in Tasks : WriterAt(t, "done") /\ writers[t].memory_id = memory_id
EncodedContent(payload) ==
    IF payload.is_chunk THEN payload.full_content ELSE payload.content
C33_LastWriterWins ==
    \A memory_id \in 1..MaxIds :
        BothUpdated(memory_id) =>
            /\ ShapeDirect(memory_id) \/ ShapeChunked(memory_id)
            /\ \E t \in Tasks :
                  \A pid \in WithParent(points, memory_id) :
                      EncodedContent(points[pid]) = writers[t].content
            /\ \A pid \in ChunkPointsOf(memory_id) :
                  points[pid].chunk_count = Cardinality(ChunkPointsOf(memory_id))

\* C34: chunk(text) terminates and returns a finite list for every text when
\* 0 <= chunk_overlap < chunk_size, also for a text longer than chunk_size
\* without any separator: no store or update waits forever for its chunks.
C34_ChunkTerminates ==
    lastOp.op \in {"store", "update"} => lastOp.status # "hang"

\* C35: get(id) never returns a memory that has no points in the store: once
\* apply_forgetting or a consolidation merge removed a memory's points, and
\* for the temporary id that update() creates and deletes, get(id) returns
\* None rather than an entry of the working-memory cache.
HasPoints(memory_id) ==
    DirectId(memory_id) \in DOMAIN points \/ WithParent(points, memory_id) # {}
C35_GetNeverStale ==
    Running =>
        \A memory_id \in 1..MaxIds :
            Get(points, cache, memory_id) # NoMemory => HasPoints(memory_id)

\* C36: after any sequence of store, update, boost, decay and consolidate
\* operations all chunk points of one memory carry the same tags, importance
\* and access_count: what is reported for a memory does not depend on the
\* chunk that is read.
MemoryLevel(payload) ==
    [tags |-> payload.tags, importance |-> payload.importance,
     access_count |-> payload.access_count]
C36_ChunksAgree ==
    \A memory_id \in 1..MaxIds :
        \A p, q \in {pid \in ChunkPointsOf(memory_id) : points[pid].is_chunk} :
            MemoryLevel(points[p]) = MemoryLevel(points[q])

\* C37: the transitions of a half-open circuit are driven only by calls that
\* were admitted while it was half-open: a call admitted while the circuit was
\* closed that completes after the circuit has opened or become half-open does
\* not count towards success_threshold, does not reopen the circuit and does
\* not postpone the recovery from open to half-open.
C37_LateCallsIgnored ==
    [][\A c \in Callers :
          (/\ calls[c] = "calling" /\ calls'[c] = "idle"
           /\ history.admitted_in[c] = "closed"
           /\ breaker.state \in {"open", "half_open"}) =>
              /\ breaker'.state = breaker.state
              /\ breaker'.success_count = breaker.success_count
              /\ breaker'.last_failure_time = breaker.last_failure_time]_vars

\* C38: importing a backup with merge = True into a store that still holds
\* the exported memories leaves every memory consistent with C1: no memory
\* has both a direct point at id = memory_id and chunk points with
\* parent_id = memory_id.
IsChunkOf(payload, memory_id) ==
    /\ "is_chunk" \in DOMAIN payload /\ payload.is_chunk
    /\ "parent_id" \in DOMAIN payload /\ payload.parent_id = memory_id
DirectAndChunks(memory_id) ==
    /\ DirectId(memory_id) \in DOMAIN points
    /\ \E pid \in DOMAIN points \ {DirectId(memory_id)} :
          IsChunkOf(points[pid], memory_id)
C38_MergeImportConsistent ==
    (lastOp.op = "import" /\ lastOp.merge_mode) =>
        \A memory_id \in 1..MaxIds : ~DirectAndChunks(memory_id)

\* C39: a sync that applies its changes deletes from a node only points that
\* were on both nodes at the previous sync (so never a point the other node
\* never held), and copies every point that is on one node only and was never
\* on the other to that other node.
C39_SyncDeletesOnlyRemoved ==
    (lastOp.op = "sync" /\ ~lastOp.dry_run /\ lastOp.fetched = SyncNodes) =>
        \A n \in SyncNodes :
            /\ \A id \in lastOp.deleted[n] :
                  id \in lastOp.seen[Other(n)] /\ id \in lastOp.both
            /\ \A id \in lastOp.only[n] \ lastOp.seen[Other(n)] :
                  id \in lastOp.present[Other(n)]

\* C40: whatever start, pause, resume and stop calls were made, at most one
\* work session has status active.
C40_OneActiveSession == Cardinality(WithStatus(work, "active")) <= 1

C28_ResultsArePreBoost ==
    lastOp.op = "recall" =>
        \A i \in 1..Len(lastOp.results) :
            /\ lastOp.results[i].point_id \in DOMAIN points
            /\ points[lastOp.results[i].point_id].access_count
                   = lastOp.results[i].memory.access_count + 1

\* A recall that returned a chunked memory whose matched chunk is boosted.
C28_Witness ==
    /\ lastOp.op = "recall"
    /\ \E i \in 1..Len(lastOp.results) :
          /\ lastOp.results[i].point_id[2] >= 0
          /\ lastOp.results[i].memory.access_count = 0
          /\ points[lastOp.results[i].point_id].access_count = 1

(***************************************************************************)
(* Properties of consolidate, apply_forgetting and decay_importance        *)
(***************************************************************************)
\* C6: consolidate never merges two points that share a parent_id: no
\* duplicate of a merge belongs to the memory of the merge's primary point.
C6_NoMergeWithinMemory ==
    lastOp.op = "consolidate" =>
        \A i \in 1..Len(lastOp.merges) :
            lastOp.merges[i].parent_id \notin lastOp.merges[i].duplicate_parents

\* A consolidation that wrote a merge for a representative whose search also
\* returned another chunk of the representative's own memory.
C6_Witness ==
    /\ lastOp.op = "consolidate" /\ ~lastOp.dry_run
    /\ \E i \in 1..Len(lastOp.merges) :
          /\ lastOp.merges[i].own_parts_found # {}
          /\ lastOp.merges[i].duplicates # {}

\* C7: after consolidate with dry_run = false, the full point set of every
\* duplicate is deleted: no point with id or parent_id equal to the memory id
\* of a duplicate remains.
C7_MergeDeletesDuplicates ==
    (lastOp.op = "consolidate" /\ ~lastOp.dry_run) =>
        \A i \in 1..Len(lastOp.merges) :
            \A memory_id \in lastOp.merges[i].duplicate_parents :
                /\ DirectId(memory_id) \notin DOMAIN points
                /\ WithParent(points, memory_id) = {}

\* C8: a step of consolidate, apply_forgetting or decay_importance with
\* dry_run = true performs no write: the store is the same after the call.
MaintenanceOps == {"consolidate", "apply_forgetting", "decay_importance"}
C8_DryRunWritesNothing ==
    [][(lastOp'.op \in MaintenanceOps /\ lastOp'.dry_run) =>
           (points' = points /\ lastOp'.writes = 0)]_vars

\* Each of the three operations has run dry on a store where it found
\* duplicates, candidates to forget or importances to decay.
C8_Witness ==
    /\ dryDone = MaintenanceOps
    /\ lastOp.op \in MaintenanceOps /\ lastOp.dry_run

(***************************************************************************)
(* Properties of the rate limiter                                          *)
(***************************************************************************)
\* C9: at most max_requests acquire() calls succeed within any rolling
\* interval of window seconds, and an acquire made when max_requests calls
\* have succeeded within the window that ends now fails with
\* RateLimitExceeded.
C9_RateLimitWindow ==
    /\ \A from \in 0..MaxTime : GrantsWithin(from) <= MaxRequests
    /\ (lastOp.op = "acquire" /\ lastOp.recent >= MaxRequests) =>
           lastOp.status = "RateLimitExceeded"

\* An acquire is refused after the window has rolled over once: more calls
\* have succeeded in total than one window admits.
C9_Witness ==
    /\ lastOp.op = "acquire" /\ lastOp.status = "RateLimitExceeded"
    /\ Len(granted) > MaxRequests
    /\ \E from \in 0..MaxTime : GrantsWithin(from) = MaxRequests

(***************************************************************************)
(* Properties of the circuit breaker                                       *)
(***************************************************************************)
\* A call completes in this step with the given status.
Completes(status) ==
    \E c \in Callers :
        /\ calls[c] = "calling" /\ calls'[c] = "idle"
        /\ lastOp'.op = "call" /\ lastOp'.status = status /\ lastOp'.caller = c

\* C10: a closed circuit opens exactly when failure_threshold failures have
\* occurred with no successful call in between: it leaves closed for open only
\* by the failure that makes the run of consecutive failures reach
\* failure_threshold, a failure that leaves the run shorter leaves it closed,
\* and each success while closed sets the failure count to zero.
C10_ClosedOpensAtThreshold ==
    [][breaker.state = "closed" =>
          /\ breaker'.state = "open" =>
                 (Completes("failed") /\ consecutive' = FailureThreshold)
          /\ (Completes("failed") /\ consecutive' >= FailureThreshold) =>
                 breaker'.state = "open"
          /\ (Completes("failed") /\ consecutive' < FailureThreshold) =>
                 breaker'.state = "closed"
          /\ Completes("ok") =>
                 (breaker'.failure_count = 0 /\ breaker'.state = "closed")]_vars

\* The circuit has just been opened from closed by the failure that completed
\* a run of failure_threshold failures, at a time after its first recovery.
C10_Witness ==
    /\ lastOp.op = "call" /\ lastOp.status = "failed" /\ lastOp.was = "closed"
    /\ breaker.state = "open"
    /\ consecutive = FailureThreshold
    /\ breaker.failure_count = FailureThreshold
    /\ breaker.success_count = SuccessThreshold

\* C11: while the circuit is open and recovery_timeout has not elapsed since
\* it opened, no call is admitted to the wrapped function, and every call made
\* is rejected with CircuitOpenError carrying the service name and a positive
\* retry_after.
C11_OpenRejects ==
    [][(breaker.state = "open" /\ clock - history.opened_at < RecoveryTimeout) =>
          /\ \A c \in Callers : calls[c] = "idle" => calls'[c] = "idle"
          /\ lastOp'.status # "admitted"
          /\ (lastOp'.op = "call" /\ lastOp'.turn # Turn
                  /\ lastOp'.status \notin {"ok", "failed", "cancelled"}) =>
                 /\ lastOp'.status = "CircuitOpenError"
                 /\ lastOp'.service = ServiceName
                 /\ lastOp'.retry_after > 0
                 /\ breaker'.state = "open"]_vars

\* A call has just been rejected by the open circuit, at a time when the
\* remaining wait computed at the second clock read is no longer positive.
C11_Witness ==
    /\ lastOp.op = "call" /\ lastOp.status = "CircuitOpenError"
    /\ breaker.state = "open"
    /\ calls[lastOp.caller] = "idle"
    /\ lastOp.service = ServiceName
    /\ lastOp.retry_after = RetryFloor
    /\ RetryAfterUnfloored(breaker, clock) <= 0

\* A call is attempted in this step: it is admitted or rejected.
Attempted ==
    /\ lastOp'.op = "call" /\ lastOp'.turn # Turn
    /\ lastOp'.status \in {"admitted", "CircuitOpenError"}

\* C12: once recovery_timeout has elapsed since the circuit opened, the next
\* call moves the circuit from open to half_open and is admitted to the
\* wrapped function.
C12_RecoveryAdmits ==
    [][(breaker.state = "open" /\ clock - history.opened_at >= RecoveryTimeout
            /\ Attempted) =>
          /\ breaker'.state = "half_open"
          /\ lastOp'.status = "admitted"
          /\ calls'[lastOp'.caller] = "calling"]_vars

\* C13: a half_open circuit closes by the success that is the
\* success_threshold-th since it became half_open, not by an earlier one, and
\* whenever it closes the failure count is zero (reset() alone closes it
\* without a success).
C13_HalfOpenCloses ==
    [][breaker.state = "half_open" =>
          /\ breaker'.state = "closed" =>
                 /\ breaker'.failure_count = 0
                 /\ \/ lastOp'.op = "reset"
                    \/ Completes("ok") /\ history.successes + 1 = SuccessThreshold
          /\ (Completes("ok") /\ history.successes + 1 >= SuccessThreshold) =>
                 breaker'.state = "closed"
          /\ (Completes("ok") /\ history.successes + 1 < SuccessThreshold) =>
                 breaker'.state = "half_open"]_vars

\* The circuit has just closed by a success, in its second recovery: the first
\* one had counted a success and then failed.
C13_Witness ==
    /\ lastOp.op = "call" /\ lastOp.status = "ok" /\ lastOp.was = "half_open"
    /\ breaker.state = "closed"
    /\ breaker.failure_count = 0
    /\ breaker.success_count = SuccessThreshold
    /\ history.opened_from = "half_open"

\* C14: a failure of a call while the circuit is half_open opens it, however
\* many successes were counted, and from then no call is admitted until a
\* full recovery_timeout has elapsed.
C14_HalfOpenFailureReopens ==
    [][/\ (breaker.state = "half_open" /\ Completes("failed")) =>
              /\ breaker'.state = "open"
              /\ \A t \in clock'..(clock' + RecoveryTimeout - 1) :
                     CheckRecovery(breaker', t).state = "open"
       /\ (breaker.state = "open" /\ history.opened_from = "half_open"
               /\ clock - history.opened_at < RecoveryTimeout) =>
              /\ \A c \in Callers : calls[c] = "idle" => calls'[c] = "idle"
              /\ Attempted => lastOp'.status = "CircuitOpenError"]_vars

\* A call has just failed in a half_open circuit that had counted a success,
\* and the circuit is open.
C14_Witness ==
    /\ lastOp.op = "call" /\ lastOp.status = "failed" /\ lastOp.was = "half_open"
    /\ breaker.state = "open"
    /\ breaker.success_count >= 1
    /\ history.opened_from = "half_open" /\ history.opened_at = clock

C16_MutationsUnderMutex ==
    [][/\ breaker' # breaker => lastOp'.mutex = "circuit"
       /\ timestamps' # timestamps => lastOp'.mutex = "rate"]_vars

(***************************************************************************)
(* Properties of the service limiter                                       *)
(***************************************************************************)
\* C17: a call through the service limiter made when max_requests calls have
\* been granted within the window that ends now fails with RateLimitExceeded,
\* the wrapped function is not started and the circuit breaker's state and
\* counters are as before.
C17_RateLimitFirst ==
    [][(lastOp'.op = "service_call" /\ lastOp'.turn # Turn
            /\ GrantsWithin(clock - WindowSeconds) >= MaxRequests) =>
          /\ lastOp'.status = "RateLimitExceeded"
          /\ calls' = calls
          /\ breaker' = breaker]_vars

\* A service call has just been refused by the rate limiter while the circuit
\* was open and due for its recovery check.
C17_Witness ==
    /\ lastOp.op = "service_call" /\ lastOp.status = "RateLimitExceeded"
    /\ breaker.state = "open"
    /\ clock - breaker.last_failure_time >= RecoveryTimeout
    /\ \A c \in Callers : calls[c] = "idle"

(***************************************************************************)
(* Properties of the store in server mode                                  *)
(***************************************************************************)
\* C18: every data operation of a remote store (upsert, batch upsert, search,
\* get, scroll, delete, update_payload) is wrapped by the circuit breaker, so
\* that no request of any of them reaches the server from a circuit that
\* stays open.
C18_NoRequestWhileOpen ==
    [][(lastOp'.op = "request" /\ lastOp'.turn # Turn /\ lastOp'.status = "sent") =>
          breaker'.state # "open"]_vars

(***************************************************************************)
(* Properties of the relations                                             *)
(***************************************************************************)
\* An item add_relation can insert, and whether its triple exists when its
\* turn comes: stored before the call, or sent earlier in the batch.
ValidItem(rel) ==
    rel.source_id # rel.target_id /\ rel.relation_type \in RelationTypeValues
ExistsAtTurn(batch, i, before) ==
    \/ Triple(batch[i]) \in StoredTriples(before)
    \/ \E j \in 1..(i - 1) : ValidItem(batch[j]) /\ Triple(batch[j]) = Triple(batch[i])

\* C19: add_relations_bulk counts an item whose (source, target, type) exists
\* already, from an earlier item of the batch or from the table, as a
\* duplicate, not as created and not as an error; the table never holds two
\* rows of one triple.
C19_BulkCountsDuplicates ==
    /\ \A r1, r2 \in BagToSet(relations) :
           /\ CopiesIn(r1, relations) = 1
           /\ Triple(r1) = Triple(r2) => r1 = r2
    /\ lastOp.op = "add_relations_bulk" =>
           LET batch == lastOp.batch
               valid == {i \in DOMAIN batch : ValidItem(batch[i])}
               dup == {i \in valid : ExistsAtTurn(batch, i, lastOp.before)}
           IN  /\ lastOp.duplicates = Cardinality(dup)
               /\ lastOp.created = Cardinality(valid \ dup)
               /\ lastOp.errors = Cardinality(DOMAIN batch \ valid)
               /\ StoredTriples(relations) =
                      StoredTriples(lastOp.before) \cup {Triple(batch[i]) : i \in valid}

\* The same triple was sent twice in one batch: one row created, one
\* duplicate, no error.
C19_Witness ==
    /\ lastOp.op = "add_relations_bulk"
    /\ Len(lastOp.batch) = 2 /\ lastOp.batch[1] = lastOp.batch[2]
    /\ lastOp.created = 1 /\ lastOp.duplicates = 1 /\ lastOp.errors = 0

\* C20: once the suggestion (source, target, type) has been rejected, no later
\* discovery run returns it, neither in its suggestions nor as an
\* auto-accepted relation.
C20_RejectedIsSticky ==
    lastOp.op = "discover" =>
        \A key \in rejected :
            /\ key \notin lastOp.accepted
            /\ \A i \in DOMAIN lastOp.suggestions :
                   <<lastOp.suggestions[i].source_id, lastOp.suggestions[i].target_id,
                     lastOp.suggestions[i].relation_type>> # key

(***************************************************************************)
(* Properties of get_neighbors                                             *)
(***************************************************************************)
NoRepeatedId(path) == \A i, j \in DOMAIN path : path[i] = path[j] => i = j

\* C21 as stated: get_neighbors(id, depth = d) returns only neighbors whose
\* depth is at most d, for every requested d, and no returned path holds a
\* memory id more than once.
C21_NeighborBoundsAsStated ==
    lastOp.op = "get_neighbors" =>
        \A n \in lastOp.neighbors : n.depth <= lastOp.depth /\ NoRepeatedId(n.path)

\* C21: get_neighbors(id, depth = d) returns only neighbors whose depth is at
\* most max(d, 1), the depth it clamps a smaller request to, and no returned
\* path holds a memory id more than once.
C21_NeighborBounds ==
    lastOp.op = "get_neighbors" =>
        \A n \in lastOp.neighbors :
            /\ n.depth <= Max2(lastOp.depth, MinDepth)
            /\ NoRepeatedId(n.path)

\* A request of depth 2 on a ring answered with a neighbor two hops away next
\* to a same-project neighbor.
C21_Witness ==
    /\ lastOp.op = "get_neighbors"
    /\ lastOp.depth = 2
    /\ \E n \in lastOp.neighbors : n.depth = 2 /\ n.relation # "same_project"
    /\ \E n \in lastOp.neighbors : n.relation = "same_project"

(***************************************************************************)
(* Properties of the stored relations                                      *)
(***************************************************************************)
\* C22: add_relation of a memory to itself inserts no row, so after any
\* sequence of add_relation, add_relations_bulk and auto-accepted discoveries
\* no stored relation has source_id = target_id.
C22_NoSelfLoop ==
    \A r \in BagToSet(relations) : r.source_id # r.target_id

(***************************************************************************)
(* Properties of export and import                                         *)
(***************************************************************************)
EntriesOf(memory_id) == {i \in DOMAIN backup.entries : backup.entries[i].id = memory_id}
StoredParents == {ParentOf(pid, points[pid]) : pid \in DOMAIN points}

\* C23: an export emits exactly one entry per logical memory; for a memory
\* stored as N chunk points the entry's content is the full text that was
\* stored, and no entry's payload has one of the keys is_chunk, parent_id,
\* chunk_index, chunk_count, full_content.
C23_BackupDedup ==
    lastOp.op = "export" =>
        /\ \A i \in DOMAIN backup.entries :
               /\ backup.entries[i].id \in StoredParents
               /\ DOMAIN backup.entries[i].payload \cap ChunkFields = {}
        /\ \A memory_id \in StoredParents :
               /\ Cardinality(EntriesOf(memory_id)) = 1
               /\ \A i \in EntriesOf(memory_id) :
                      backup.entries[i].payload.content = cache[memory_id].content

\* An export of a memory stored as three chunk points, next to another memory.
C23_Witness ==
    /\ lastOp.op = "export"
    /\ Len(backup.entries) = 2
    /\ \E memory_id \in StoredParents :
          /\ Cardinality({pid \in DOMAIN points : pid[1] = memory_id /\ pid[2] >= 0}) = 3
          /\ \E i \in EntriesOf(memory_id) :
                 backup.entries[i].payload.content = ThreeChunkText

\* C24: after an import with merge = False the collection holds exactly the
\* imported entries and none of the points it held before.
C24_ImportReplaces ==
    (lastOp.op = "import" /\ ~lastOp.merge_mode) =>
        DOMAIN points =
            {DirectId(backup.entries[i].id) :
                i \in {j \in DOMAIN backup.entries :
                          backup.include_vectors /\ backup.entries[j].has_vector}}

(***************************************************************************)
(* Properties of the working-memory cache                                  *)
(***************************************************************************)
\* The key of before that was put or read longest ago.
LeastRecentlyUsed(before) ==
    CHOOSE k \in KeysOf(before.entries) :
        \A other \in KeysOf(before.entries) : before.used[k] <= before.used[other]

\* C26: the cache never holds more than max_size entries, and an insertion that
\* overflows it evicts the entry put or read longest ago, and nothing else.
C26_CacheBounded ==
    /\ Len(lru.entries) <= CacheMaxSize
    /\ lastOp.op = "cache_memory" =>
           IF lastOp.key \notin KeysOf(lastOp.before.entries)
              /\ Len(lastOp.before.entries) = CacheMaxSize
           THEN lastOp.evicted = {LeastRecentlyUsed(lastOp.before)}
           ELSE lastOp.evicted = {}

\* A full cache whose older entry was used again after the newer one was put,
\* and an insertion that then evicted the newer one.
C26_Witness ==
    /\ lastOp.op = "cache_memory"
    /\ Len(lastOp.before.entries) = CacheMaxSize
    /\ lastOp.evicted # {}
    /\ \E k \in KeysOf(lastOp.before.entries) \ lastOp.evicted :
          \A e \in lastOp.evicted :
              /\ lastOp.before.used[e] < lastOp.before.used[k]
              /\ lastOp.before.used[k] > 2
              /\ k \in KeysOf(lru.entries)

(***************************************************************************)
(* Properties of the importance                                            *)
(***************************************************************************)
\* C27: after any sequence of store, update, boost_on_access, decay_importance
\* and consolidate, every stored point has an importance within [0, 1]; an
\* importance out of range is rejected, not written.
C27_ImportanceInRange ==
    \A pid \in DOMAIN points : ValidImportance(points[pid].importance)
=============================================================================
